---- MODULE Spec2Model ----
(***************************************************************************)
(* A model of the xv6 kernel core (kernel/spinlock.c, proc.c, log.c,       *)
(* bio.c).  Each subsystem has its own specification over its own group    *)
(* of variables; the other groups stay at their initial values.            *)
(*                                                                         *)
(*   SpecLock : spinlock.c  acquire / release / push_off / pop_off         *)
(*   SpecProc : proc.c      scheduler, fork, exit, wait, kill, sleep,      *)
(*                          wakeup, yield; sysproc.c sys_sleep;            *)
(*                          trap.c clockintr                               *)
(***************************************************************************)
EXTENDS Integers, Naturals, Sequences, FiniteSets, TLC

(***************************************************************************)
(* Bounds of the model.                                                    *)
(***************************************************************************)
\* number of harts that run the spinlock harness (param.h NCPU is 8)
NHart == 2
\* number of spinlocks of the harness
NLock == 2

\* size of the process table (param.h NPROC is 64)
NPROC == 3
\* number of harts running scheduler() (param.h NCPU is 8)
NCPU == 2
\* fork() is not called once nextpid has passed MaxPid
MaxPid == 3
\* clockintr() stops ticking at MaxTicks
MaxTicks == 1
NOps == 2
MAXOPBLOCKS == 2
NCrashBlocks == 2
NBUF == 2
NBUFMAP_BUCKET == 2
NBThread == 2
NOFILE == 2
NFILE == 2
NVMA == 1
NScanBlockno == 4
NBlockno == 3
\* number of physical frames between end and PHYSTOP
NFrame == 4
\* number of kernel threads that call kalloc() and kfree()
NKThread == 2
\* a thread calls kalloc() while it holds fewer than MaxHold references
MaxHold == 2
\* incr() is not called on a frame whose count has reached MaxRef
MaxRef == 2
\* the machine that runs user processes has between MinVmFrame and NVmFrame
\* physical frames
MinVmFrame == 14
NVmFrame == 22
\* sbrk() does not grow a process beyond MaxSz pages
MaxSz == 2
\* user programs store the bytes 0..MaxVal
MaxVal == 1
\* fork() is not called on the machine with user memory once its nextpid
\* has passed MaxVmPid
MaxVmPid == 3
\* size of the inode cache (param.h NINODE is 50)
NINODE == 3
\* number of on-disk inodes, the root directory's included
NInum == 2
\* number of processes that make file system calls
NIThread == 2
\* number of data blocks of the disk
NDataBlock == 1
\* units of address in a page (riscv.h PGSIZE is 4096)
PGSIZE == 2
\* pages between address 0 and MMAPEND
MaxMPages == 2
\* uint64 arithmetic wraps at MaxU64
MaxU64 == 16
\* the bytes of a disk block
BSIZE == 2
\* the direct block numbers of a dinode
NDIRECT == 2
\* the block numbers an indirect block holds
NINDIRECT == 3
\* the blocks of the disk
FSSIZE == 24
\* filewrite() is called with 0 .. MaxWrite bytes
MaxWrite == 8
\* at the call of filewrite() the last bitmap block but one has at most
\* MaxFree0 clear bits
MaxFree0 == 2
\* MAXOPBLOCKS of kernel/param.h, as filewrite() uses it
FwMaxOpBlocks == 10

Harts == 1..NHart
Locks == 1..NLock

VARIABLES
  \* ---- spinlock.c -------------------------------------------------------
  locked,     \* locked[l]  : struct spinlock.locked, 0 or 1
  lkcpu,      \* lkcpu[l]   : struct spinlock.cpu, 0 = none, else the hart
  noff,       \* noff[h]    : struct cpu.noff, depth of push_off nesting
  intena,     \* intena[h]  : struct cpu.intena
  intr,       \* intr[h]    : the hart's interrupt-enable bit (sstatus.SIE)
  hpc,        \* hpc[h]     : where hart h is inside acquire/release
  incs        \* incs[h]    : locks hart h has returned from acquire() for
              \*              and has not yet called release() on

lockVars == <<locked, lkcpu, noff, intena, intr, hpc, incs>>

VARIABLES
  \* ---- proc.c -----------------------------------------------------------
  pstate,     \* pstate[p]  : struct proc.state
  pchan,      \* pchan[p]   : struct proc.chan, 0 = null
  pkilled,    \* pkilled[p] : struct proc.killed
  pxstate,    \* pxstate[p] : struct proc.xstate
  ppid,       \* ppid[p]    : struct proc.pid
  pparent,    \* pparent[p] : struct proc.parent, 0 = null, else a table index
  nextpid,    \* nextpid
  slk,        \* slk[l]     : the hart that holds spinlock l (p->lock of each
              \*              descriptor, tickslock), 0 = not held
  cproc,      \* cproc[c]   : struct cpu.proc, 0 = null
  ctx,        \* ctx[c]     : which context runs on hart c after the last
              \*              swtch: "sched" (scheduler) or "proc" (c->proc)
  spc,        \* spc[c]     : position of hart c inside scheduler()
  kpc,        \* kpc[p]     : position and locals of p's kernel thread
  ticks,      \* ticks (trap.c)
  ci,         \* position of the timer interrupt handler clockintr() on hart 1
  sysret,     \* sysret[p]  : the system call p is returning from: its return
              \*              value and the word copyout() stored for it
  panicked,   \* "" or the message of the panic() that stopped the kernel
  exited      \* exited[pid]: history, the set of the status pid passed to exit(), kept
              \*              from exit() until a wait() frees the descriptor

procRest == <<pstate, pchan, pkilled, pxstate, ppid, pparent, nextpid, slk,
              cproc, ctx, spc, kpc, ci, sysret, panicked, exited>>

procVars == <<procRest, ticks>>

\* kernel/log.c (struct log), the disk and the buffers of the logged blocks
VARIABLES
  outstanding, \* log.outstanding
  committing,  \* log.committing
  lh,          \* log.lh: the sequence block[0..n-1] of the in-memory header
  logsize,     \* log.size, the nlog of the superblock
  dhead,       \* the header block on disk: block[0..n-1]
  dlog,        \* dlog[i]: the data of log block log.start + i on disk
  dhome,       \* dhome[b]: the data of block b at its home location on disk
  cdata,       \* cdata[b]: the data of the buffer of block b
  opc,         \* opc[p]: the place of file system call p in begin_op .. end_op
  opb,         \* opb[p]: the blocks call p has logged since its begin_op
  rec,         \* the place of recover_from_log() at boot
  lpanic,      \* the panic message of this layer, "" if none
  committed,   \* committed[b]: history, the data of b as of the last commit
               \*               header write
  lpin         \* lpin[b]: the bpin() calls of the log on the buffer of block
               \*          b that no bunpin() has undone

logVars == <<outstanding, committing, lh, logsize, dhead, dlog, dhome, cdata,
             opc, opb, rec, lpanic, committed, lpin>>

\* kernel/bio.c (bcache and struct buf)
VARIABLES
  bufmap,        \* bufmap[k]: the chain of bucket k, first buffer first
  bdev,          \* bdev[b]: struct buf.dev
  bblockno,      \* bblockno[b]: struct buf.blockno
  brefcnt,       \* brefcnt[b]: struct buf.refcnt
  blastuse,      \* blastuse[b]: struct buf.lastuse
  bvalid,        \* bvalid[b]: struct buf.valid
  bslock,        \* bslock[b]: the caller that holds the sleep lock b->lock, 0 = none
  bufmap_locks,  \* bufmap_locks[k]: the caller that holds the lock of bucket k
  eviction_lock, \* the caller that holds bcache.eviction_lock, 0 = none
  bt,            \* bt[t]: the place and the locals of caller t in bread .. brelse
  pinned,        \* the block numbers pinned by log_write() and not yet unpinned
  bpanic         \* the panic message of this layer, "" if none

bcVars == <<bufmap, bdev, bblockno, brefcnt, blastuse, bvalid, bslock,
            bufmap_locks, eviction_lock, bt, pinned, bpanic>>

\* what a process descriptor owns (proc.c, sysfile.c) and the file table
\* (file.c)
VARIABLES
  rstate,      \* rstate[p]: struct proc.state: "UNUSED", "USED" (any of SLEEPING, RUNNABLE, RUNNING) or "ZOMBIE"
  rparent,     \* rparent[p]: struct proc.parent, 0 = none
  trapframe,   \* trapframe[p]: 1 iff p->trapframe points to a page
  pagetable,   \* pagetable[p]: 1 iff p->pagetable points to a page table
  ofile,       \* ofile[p][fd]: p->ofile[fd], 0 = null, else an entry of ftable.file
  cwd,         \* cwd[p]: 1 iff p->cwd holds a reference to an inode
  vmas,        \* vmas[p][i]: p->vmas[i], its valid flag and its file f
  fref,        \* fref[f]: ftable.file[f].ref
  iref,        \* the reference count of the inode of the root directory
  rpanic       \* the message of panic(), "" while the kernel runs

resVars == <<rstate, rparent, trapframe, pagetable, ofile, cwd, vmas, fref,
             iref, rpanic>>

\* the physical page allocator (kalloc.c)
VARIABLES
  freelist,    \* kmem.freelist: the frames of the list, head first
  ref_page,    \* ref_page[f]: kmem.ref_page[page_index(f)]
  kt,          \* kt[t]: where thread t is inside kalloc() and its local r
  kown         \* kown[t][f]: the references to frame f that thread t holds

kmVars == <<freelist, ref_page, kt, kown>>

\* user memory (vm.c) on top of the page allocator, one record per call
VARIABLES
  phys,        \* kmem.freelist, kmem.ref_page, the contents pmem[f] of the
               \* frames (one byte stands for a page) and the panic message
  usz,         \* usz[p]: p->sz in pages
  utf,         \* utf[p]: the frame of p->trapframe, 0 = null
  upt,         \* upt[p]: p->pagetable: the frames of its page-table pages
               \* and its leaf entries
  vret,        \* the last system call: its caller, its name, its result
  vnextpid     \* nextpid of this machine

vmVars == <<phys, usz, utf, upt, vret, vnextpid>>

\* the inode cache and the file system below it (fs.c)
VARIABLES
  icache,      \* icache.inode[e]: dev, inum, ref, valid and the copy of the
               \* on-disk inode
  ilk,         \* ilk[e]: the holder of icache.inode[e].lock, 0 = free
  dinode,      \* dinode[i]: the on-disk inode i; type 0 = free
  dirent,      \* dirent[n]: the inum of the root directory's entry named n,
               \* 0 = no entry
  bitmap,      \* the data blocks marked in use in the free bitmap
  ith,         \* ith[t]: where process t is in its system call, its locals
  ifile,       \* ifile[t]: f->ip of the open file of process t, 0 = none
  ihold,       \* ihold[t][e]: the references to entry e that t was handed
               \* and has not put
  ipanic       \* the panic message, "" while the kernel runs

inVars == <<icache, ilk, dinode, dirent, bitmap, ith, ifile, ihold, ipanic>>

\* the memory-mapped regions of one process (sysfile.c)
VARIABLES
  mvmas,       \* mvmas[i]: p->vmas[i]
  mfref,       \* f->ref of the mapped file
  mpte,        \* mpte[g]: the flags of the user page g, {} = not valid
  mret,        \* the last call, its arguments and its result
  mpanic       \* the panic message, "" while the kernel runs

muVars == <<mvmas, mfref, mpte, mret, mpanic>>

\* one call of filewrite() on an inode (file.c, fs.c)
VARIABLES
  fwsize,      \* ip->size
  fwoff,       \* f->off
  fwn,         \* filewrite's n
  fwmap,       \* the block map of the file: ip->addrs[] and the entries of
               \* the indirect blocks
  fwfree,      \* the blocks whose bit in the free bitmap is clear
  fwlog,       \* the blocks passed to log_write() since the last begin_op()
  fwi,         \* filewrite's i
  fwn1,        \* filewrite's n1
  fwtot,       \* writei's tot
  fwwoff,      \* writei's off
  fwpc,        \* where the call is
  fwret,       \* filewrite's return value, -2 until it returns
  fwpanic      \* the panic message, "" while the kernel runs

fwVars == <<fwsize, fwoff, fwn, fwmap, fwfree, fwlog, fwi, fwn1, fwtot,
            fwwoff, fwpc, fwret, fwpanic>>

vars == <<lockVars, procVars, logVars, bcVars, resVars, kmVars, vmVars,
          inVars, muVars, fwVars>>

notLock == <<procVars, logVars, bcVars, resVars, kmVars, vmVars,
            inVars, muVars, fwVars>>
notProc == <<lockVars, logVars, bcVars, resVars, kmVars, vmVars,
            inVars, muVars, fwVars>>
notLog  == <<lockVars, procVars, bcVars, resVars, kmVars, vmVars,
            inVars, muVars, fwVars>>
notBc   == <<lockVars, procRest, logVars, resVars, kmVars, vmVars,
            inVars, muVars, fwVars>>
notRes  == <<lockVars, procVars, logVars, bcVars, kmVars, vmVars,
            inVars, muVars, fwVars>>
notKm   == <<lockVars, procVars, logVars, bcVars, resVars, vmVars, inVars,
            muVars, fwVars>>
notVm   == <<lockVars, procVars, logVars, bcVars, kmVars, inVars, muVars, fwVars>>
notIn   == <<lockVars, procVars, logVars, bcVars, resVars, kmVars, vmVars,
            muVars, fwVars>>
notMu   == <<lockVars, procVars, logVars, bcVars, resVars, kmVars, vmVars,
            inVars, fwVars>>
notFw   == <<lockVars, procVars, logVars, bcVars, resVars, kmVars, vmVars,
            inVars, muVars>>

(***************************************************************************)
(* kernel/spinlock.c                                                       *)
(***************************************************************************)
Idle == [pc |-> "idle", l |-> 0]

InitLock ==
  /\ locked = [l \in Locks |-> 0]
  /\ lkcpu  = [l \in Locks |-> 0]
  /\ noff   = [h \in Harts |-> 0]
  /\ intena = [h \in Harts |-> 0]
  /\ intr   = [h \in Harts |-> 0]
  /\ hpc    = [h \in Harts |-> Idle]
  /\ incs   = [h \in Harts |-> {}]

\* holding(lk): lk->locked && lk->cpu == mycpu()
holding(l, h) == locked[l] = 1 /\ lkcpu[l] = h

\* intr_on() / intr_off() as the code outside a critical section uses them
\* (scheduler() turns interrupts on at the top of each pass)
intr_on(h) ==
  /\ hpc[h].pc = "idle"
  /\ noff[h] = 0
  /\ intr[h] = 0
  /\ intr' = [intr EXCEPT ![h] = 1]
  /\ UNCHANGED <<locked, lkcpu, noff, intena, hpc, incs>>

intr_off(h) ==
  /\ hpc[h].pc = "idle"
  /\ intr[h] = 1
  /\ intr' = [intr EXCEPT ![h] = 0]
  /\ UNCHANGED <<locked, lkcpu, noff, intena, hpc, incs>>

\* a hart calls acquire(lk)
acquire_call(h, l) ==
  /\ hpc[h].pc = "idle"
  /\ noff[h] < NLock
  /\ hpc' = [hpc EXCEPT ![h] = [pc |-> "acq_push", l |-> l]]
  /\ UNCHANGED <<locked, lkcpu, noff, intena, intr, incs>>

\* push_off() that leaves the interrupt-enable bit alone
push_off_nointroff(h) ==
  /\ hpc[h].pc = "acq_push"
  /\ intena' = [intena EXCEPT ![h] = IF noff[h] = 0 THEN intr[h] ELSE @]
  /\ noff'   = [noff EXCEPT ![h] = @ + 1]
  /\ hpc'    = [hpc EXCEPT ![h].pc = "acq_holding"]
  /\ UNCHANGED <<locked, lkcpu, intr, incs>>

\* push_off() that saves the interrupt-enable bit at every depth
push_off_alwayssave(h) ==
  /\ hpc[h].pc = "acq_push"
  /\ intr'   = [intr EXCEPT ![h] = 0]
  /\ intena' = [intena EXCEPT ![h] = intr[h]]
  /\ noff'   = [noff EXCEPT ![h] = @ + 1]
  /\ hpc'    = [hpc EXCEPT ![h].pc = "acq_holding"]
  /\ UNCHANGED <<locked, lkcpu, incs>>

\* push_off(): old = intr_get(); intr_off(); if(noff == 0) intena = old; noff += 1
push_off(h) ==
  /\ hpc[h].pc = "acq_push"
  /\ intr'   = [intr EXCEPT ![h] = 0]
  /\ intena' = [intena EXCEPT ![h] = IF noff[h] = 0 THEN intr[h] ELSE @]
  /\ noff'   = [noff EXCEPT ![h] = @ + 1]
  /\ hpc'    = [hpc EXCEPT ![h].pc = "acq_holding"]
  /\ UNCHANGED <<locked, lkcpu, incs>>

\* if(holding(lk)) panic("acquire")
acquire_check(h) ==
  /\ hpc[h].pc = "acq_holding"
  /\ hpc' = [hpc EXCEPT ![h].pc =
               IF holding(hpc[h].l, h) THEN "panic_acquire" ELSE "acq_tas"]
  /\ UNCHANGED <<locked, lkcpu, noff, intena, intr, incs>>

\* a deliberately broken swap: stores 1 and reports the lock as free
TestAndSetBlind(h) ==
  /\ hpc[h].pc = "acq_tas"
  /\ locked' = [locked EXCEPT ![hpc[h].l] = 1]
  /\ hpc' = [hpc EXCEPT ![h].pc = "acq_setcpu"]
  /\ UNCHANGED <<lkcpu, noff, intena, intr, incs>>

\* one iteration of while(__sync_lock_test_and_set(&lk->locked, 1) != 0) ;
\* the swap is atomic: it stores 1 and returns the old value
TestAndSet(h) ==
  /\ hpc[h].pc = "acq_tas"
  /\ LET old == locked[hpc[h].l] IN
       /\ locked' = [locked EXCEPT ![hpc[h].l] = 1]
       /\ hpc' = [hpc EXCEPT ![h].pc = IF old = 0 THEN "acq_setcpu" ELSE "acq_tas"]
  /\ UNCHANGED <<lkcpu, noff, intena, intr, incs>>

\* lk->cpu = mycpu(); acquire returns
acquire_setcpu(h) ==
  /\ hpc[h].pc = "acq_setcpu"
  /\ lkcpu' = [lkcpu EXCEPT ![hpc[h].l] = h]
  /\ incs'  = [incs EXCEPT ![h] = @ \cup {hpc[h].l}]
  /\ hpc'   = [hpc EXCEPT ![h] = Idle]
  /\ UNCHANGED <<locked, noff, intena, intr>>

\* a hart calls release(lk)
release_call(h, l) ==
  /\ hpc[h].pc = "idle"
  /\ incs' = [incs EXCEPT ![h] = @ \ {l}]
  /\ hpc'  = [hpc EXCEPT ![h] = [pc |-> "rel_holding", l |-> l]]
  /\ UNCHANGED <<locked, lkcpu, noff, intena, intr>>

\* if(!holding(lk)) panic("release")
release_check(h) ==
  /\ hpc[h].pc = "rel_holding"
  /\ hpc' = [hpc EXCEPT ![h].pc =
               IF holding(hpc[h].l, h) THEN "rel_clearcpu" ELSE "panic_release"]
  /\ UNCHANGED <<locked, lkcpu, noff, intena, intr, incs>>

\* lk->cpu = 0
release_clearcpu(h) ==
  /\ hpc[h].pc = "rel_clearcpu"
  /\ lkcpu' = [lkcpu EXCEPT ![hpc[h].l] = 0]
  /\ hpc'   = [hpc EXCEPT ![h].pc = "rel_unlock"]
  /\ UNCHANGED <<locked, noff, intena, intr, incs>>

\* __sync_lock_release(&lk->locked)
release_unlock(h) ==
  /\ hpc[h].pc = "rel_unlock"
  /\ locked' = [locked EXCEPT ![hpc[h].l] = 0]
  /\ hpc'    = [hpc EXCEPT ![h].pc = "rel_pop"]
  /\ UNCHANGED <<lkcpu, noff, intena, intr, incs>>

\* pop_off()
pop_off(h) ==
  /\ hpc[h].pc = "rel_pop"
  /\ IF intr[h] = 1
       THEN /\ hpc' = [hpc EXCEPT ![h].pc = "panic_pop_off_interruptible"]
            /\ UNCHANGED <<noff, intr>>
       ELSE IF noff[h] < 1
         THEN /\ hpc' = [hpc EXCEPT ![h].pc = "panic_pop_off"]
              /\ UNCHANGED <<noff, intr>>
         ELSE /\ noff' = [noff EXCEPT ![h] = @ - 1]
              /\ intr' = [intr EXCEPT ![h] =
                            IF noff[h] - 1 = 0 /\ intena[h] = 1 THEN 1 ELSE @]
              /\ hpc'  = [hpc EXCEPT ![h] = Idle]
  /\ UNCHANGED <<locked, lkcpu, intena, incs>>

NextLock ==
  \/ \E h \in Harts :
       \/ intr_on(h) /\ UNCHANGED notLock
       \/ intr_off(h) /\ UNCHANGED notLock
       \/ \E l \in Locks : acquire_call(h, l) /\ UNCHANGED notLock
       \/ push_off(h) /\ UNCHANGED notLock
       \/ acquire_check(h) /\ UNCHANGED notLock
       \/ TestAndSet(h) /\ UNCHANGED notLock
       \/ acquire_setcpu(h) /\ UNCHANGED notLock
       \/ \E l \in Locks : release_call(h, l) /\ UNCHANGED notLock
       \/ release_check(h) /\ UNCHANGED notLock
       \/ release_clearcpu(h) /\ UNCHANGED notLock
       \/ release_unlock(h) /\ UNCHANGED notLock
       \/ pop_off(h) /\ UNCHANGED notLock

(***************************************************************************)
(* kernel/proc.c                                                           *)
(***************************************************************************)
Procs == 1..NPROC
Cpus  == 1..NCPU

\* spinlocks of this layer: p->lock of descriptor p is lock p
TicksLock == NPROC + 1
LockIds == Procs \cup {TicksLock}

\* sleep channels: wait() sleeps on its own descriptor p (channel p),
\* sys_sleep() on &ticks
TicksChan == NPROC + 1

\* initproc is the descriptor userinit() allocated: the first of the table
initproc == 1

\* exit statuses a user program passes to exit()
ExitStatus == {7}
\* the value of the addr argument of wait(): a mapped user address or an
\* address copyout() fails on; "null" is the address 0
WaitAddr == {"ok", "bad"}
\* the pids a user program passes to kill(): 0 is the pid field of an unused
\* descriptor, MaxPid the pid of the last process forked; no program kills
\* init
KillArg == {0, MaxPid}
\* the tick counts a user program passes to sleep()
SleepArg == {0, 1}

\* the pids allocpid() can hand out: a fork() that started with
\* nextpid <= MaxPid may be overtaken by the forks of the other processes
Pids == 1..(MaxPid + NPROC)

NoRet == [sys |-> "none", val |-> 0, x |-> 0]
Thread(pc) == [pc |-> pc, i |-> 0, a |-> 0, b |-> 0, ry |-> "none"]

\* the state userinit() leaves: the first descriptor RUNNABLE with pid 1,
\* every hart about to enter scheduler()
InitProc ==
  /\ pstate  = [p \in Procs |-> IF p = initproc THEN "RUNNABLE" ELSE "UNUSED"]
  /\ pchan   = [p \in Procs |-> 0]
  /\ pkilled = [p \in Procs |-> 0]
  /\ pxstate = [p \in Procs |-> 0]
  /\ ppid    = [p \in Procs |-> IF p = initproc THEN 1 ELSE 0]
  /\ pparent = [p \in Procs |-> 0]
  /\ nextpid = 2
  /\ slk     = [l \in LockIds |-> 0]
  /\ cproc   = [c \in Cpus |-> 0]
  /\ ctx     = [c \in Cpus |-> "sched"]
  /\ spc     = [c \in Cpus |-> [pc |-> "scan", i |-> 1]]
  /\ kpc     = [p \in Procs |-> Thread(IF p = initproc THEN "forkret" ELSE "none")]
  /\ ticks   = 0
  /\ ci      = [pc |-> "none", i |-> 0]
  /\ sysret  = [p \in Procs |-> NoRet]
  /\ panicked = ""
  /\ exited  = [q \in Pids |-> {}]

\* mycpu()->noff: the number of spinlocks hart c holds
nlocks(c) == Cardinality({l \in LockIds : slk[l] = c})

\* process p's kernel thread is executing on hart c
Running(p, c) ==
  /\ panicked = ""
  /\ cproc[c] = p
  /\ ctx[c] = "proc"
  /\ (c = 1 => ci.pc = "none")

At(p, c, pc) == Running(p, c) /\ kpc[p].pc = pc

\* scheduler() of hart c is executing
InSched(c) ==
  /\ panicked = ""
  /\ ctx[c] = "sched"
  /\ (c = 1 => ci.pc = "none")

\* acquire(lk) by hart c: spins while another hart holds lk
Acq(c, l) ==
  /\ slk[l] = 0
  /\ slk' = [slk EXCEPT ![l] = c]

\* release(lk)
Rel(l) == [slk EXCEPT ![l] = 0]

\* freeproc(p): the fields of the descriptor this model keeps
freeproc(p) ==
  /\ ppid'    = [ppid EXCEPT ![p] = 0]
  /\ pparent' = [pparent EXCEPT ![p] = 0]
  /\ pchan'   = [pchan EXCEPT ![p] = 0]
  /\ pkilled' = [pkilled EXCEPT ![p] = 0]
  /\ pxstate' = [pxstate EXCEPT ![p] = 0]
  /\ pstate'  = [pstate EXCEPT ![p] = "UNUSED"]

\* a system call returns val to user space (x: the word copyout() stored)
Return(p, sys, val, x) ==
  /\ kpc' = [kpc EXCEPT ![p] = Thread("sysret")]
  /\ sysret' = [sysret EXCEPT ![p] = [sys |-> sys, val |-> val, x |-> x]]

\* wakeup1(p): if(p->chan == p && p->state == SLEEPING) p->state = RUNNABLE
wakeup1(st, p) ==
  IF p # 0 /\ pchan[p] = p /\ st[p] = "SLEEPING"
    THEN [st EXCEPT ![p] = "RUNNABLE"] ELSE st

\* ---- sched() ------------------------------------------------------------
\* the panic sched() ends in, "" if none, given the locks and states its
\* caller has set up (sched() is called with interrupts off)
SchedMsg(p, c, l2, st2) ==
  IF l2[p] # c THEN "sched p->lock"
  ELSE IF Cardinality({l \in LockIds : l2[l] = c}) # 1 THEN "sched locks"
  ELSE IF st2[p] = "RUNNING" THEN "sched running"
  ELSE ""

\* sched(): the panics, then swtch(&p->context, &mycpu()->context); the
\* thread of p stops with its continuation t
sched(p, c, t) ==
  LET msg == SchedMsg(p, c, slk', pstate') IN
    IF msg # ""
      THEN /\ panicked' = msg
           /\ UNCHANGED <<ctx, kpc>>
      ELSE /\ ctx' = [ctx EXCEPT ![c] = "sched"]
           /\ kpc' = [kpc EXCEPT ![p] = t]
           /\ UNCHANGED panicked

\* ---- scheduler() --------------------------------------------------------
NextSlot(i) == IF i = NPROC THEN 1 ELSE i + 1

\* the scheduler's pick with the state test left out
s_scan_any(c) ==
  /\ InSched(c)
  /\ spc[c].pc = "scan"
  /\ LET p == spc[c].i IN
       /\ slk[p] = 0
       /\ IF pstate[p] \in {"RUNNABLE", "RUNNING"}
            THEN /\ slk'    = [slk EXCEPT ![p] = c]
                 /\ pstate' = [pstate EXCEPT ![p] = "RUNNING"]
                 /\ cproc'  = [cproc EXCEPT ![c] = p]
                 /\ ctx'    = [ctx EXCEPT ![c] = "proc"]
                 /\ spc'    = [spc EXCEPT ![c].pc = "back"]
            ELSE /\ spc' = [spc EXCEPT ![c].i = NextSlot(p)]
                 /\ UNCHANGED <<slk, pstate, cproc, ctx>>
  /\ UNCHANGED <<pchan, pkilled, pxstate, ppid, pparent, nextpid,
                 kpc, ticks, ci, sysret, panicked, exited>>

\* one iteration of for(p = proc; ...): acquire(&p->lock);
\* if(p->state == RUNNABLE){ p->state = RUNNING; c->proc = p; swtch(...) }
\* else release(&p->lock) and go on to the next descriptor (after the last
\* one the outer for(;;) starts again at the first: intr_on(); found = 0)
s_scan(c) ==
  /\ InSched(c)
  /\ spc[c].pc = "scan"
  /\ LET p == spc[c].i IN
       /\ slk[p] = 0
       /\ IF pstate[p] = "RUNNABLE"
            THEN /\ slk'    = [slk EXCEPT ![p] = c]
                 /\ pstate' = [pstate EXCEPT ![p] = "RUNNING"]
                 /\ cproc'  = [cproc EXCEPT ![c] = p]
                 /\ ctx'    = [ctx EXCEPT ![c] = "proc"]
                 /\ spc'    = [spc EXCEPT ![c].pc = "back"]
            ELSE /\ spc' = [spc EXCEPT ![c].i = NextSlot(p)]
                 /\ UNCHANGED <<slk, pstate, cproc, ctx>>
  /\ UNCHANGED <<pchan, pkilled, pxstate, ppid, pparent, nextpid,
                 kpc, ticks, ci, sysret, panicked, exited>>

\* a scheduler that starts its scan again at the first descriptor
s_back_restart(c) ==
  /\ InSched(c)
  /\ spc[c].pc = "back"
  /\ LET p == spc[c].i IN
       /\ cproc' = [cproc EXCEPT ![c] = 0]
       /\ slk'   = Rel(p)
       /\ spc'   = [spc EXCEPT ![c] = [pc |-> "scan", i |-> 1]]
  /\ UNCHANGED <<pstate, pchan, pkilled, pxstate, ppid, pparent, nextpid,
                 ctx, kpc, ticks, ci, sysret, panicked, exited>>

\* back from swtch: c->proc = 0; found = 1; release(&p->lock); next descriptor
s_back(c) ==
  /\ InSched(c)
  /\ spc[c].pc = "back"
  /\ LET p == spc[c].i IN
       /\ cproc' = [cproc EXCEPT ![c] = 0]
       /\ slk'   = Rel(p)
       /\ spc'   = [spc EXCEPT ![c] = [pc |-> "scan", i |-> NextSlot(p)]]
  /\ UNCHANGED <<pstate, pchan, pkilled, pxstate, ppid, pparent, nextpid,
                 ctx, kpc, ticks, ci, sysret, panicked, exited>>

\* ---- forkret() ----------------------------------------------------------
\* release(&myproc()->lock); usertrapret()
forkret(p, c) ==
  /\ At(p, c, "forkret")
  /\ slk' = Rel(p)
  /\ kpc' = [kpc EXCEPT ![p].pc = "user"]
  /\ UNCHANGED <<pstate, pchan, pkilled, pxstate, ppid, pparent, nextpid,
                 cproc, ctx, spc, ticks, ci, sysret, panicked, exited>>

\* ---- yield() ------------------------------------------------------------
\* the positions at which the model lets the timer interrupt preempt a
\* thread: user mode (usertrap), and in the kernel (kerneltrap) the two
\* lock-free points of sys_sleep(); the hart holds no
\* spinlock there, so interrupts are on
Preemptible == {"user", "ss_acq", "sl_reacq"}

\* timer interrupt: usertrap()/kerneltrap() call yield(); usertrap() calls
\* exit(-1) instead when p->killed; kerneltrap() yields only if RUNNING.
\* yield(): acquire(&p->lock); p->state = RUNNABLE; sched()
yield(p, c) ==
  /\ Running(p, c)
  /\ kpc[p].pc \in Preemptible
  /\ nlocks(c) = 0
  /\ kpc[p].pc = "user" => pkilled[p] = 0
  /\ kpc[p].pc # "user" => pstate[p] = "RUNNING"
  /\ Acq(c, p)
  /\ pstate' = [pstate EXCEPT ![p] = "RUNNABLE"]
  /\ sched(p, c, [kpc[p] EXCEPT !.ry = kpc[p].pc, !.pc = "y_rel"])
  /\ UNCHANGED <<pchan, pkilled, pxstate, ppid, pparent, nextpid,
                 cproc, spc, ticks, ci, sysret, exited>>

\* yield() after sched(): release(&p->lock); back to the interrupted code
y_rel(p, c) ==
  /\ At(p, c, "y_rel")
  /\ slk' = Rel(p)
  /\ kpc' = [kpc EXCEPT ![p].pc = kpc[p].ry, ![p].ry = "none"]
  /\ UNCHANGED <<pstate, pchan, pkilled, pxstate, ppid, pparent, nextpid,
                 cproc, ctx, spc, ticks, ci, sysret, panicked, exited>>

\* ---- usertrap(): system calls and the killed test ------------------------
\* usertrap(): if(p->killed) exit(-1), before a system call, after it and
\* after a device interrupt; exit(): if(p == initproc) panic("init exiting")
trap_killed(p, c) ==
  /\ Running(p, c)
  /\ kpc[p].pc \in {"user", "sysret"}
  /\ pkilled[p] = 1
  /\ IF p = initproc
       THEN /\ panicked' = "init exiting"
            /\ UNCHANGED <<kpc, sysret>>
       ELSE /\ kpc' = [kpc EXCEPT ![p] = [Thread("x_init") EXCEPT !.a = -1]]
            /\ sysret' = [sysret EXCEPT ![p] = NoRet]
            /\ UNCHANGED panicked
  /\ UNCHANGED <<pstate, pchan, pkilled, pxstate, ppid, pparent, nextpid, slk,
                 cproc, ctx, spc, ticks, ci, exited>>

\* usertrap() that goes on to usertrapret() without the test of p->killed
sys_return_nokilltest(p, c) ==
  /\ At(p, c, "sysret")
  /\ kpc' = [kpc EXCEPT ![p].pc = "user"]
  /\ sysret' = [sysret EXCEPT ![p] = NoRet]
  /\ UNCHANGED <<pstate, pchan, pkilled, pxstate, ppid, pparent, nextpid, slk,
                 cproc, ctx, spc, ticks, ci, panicked, exited>>

\* usertrapret() after a system call
sys_return(p, c) ==
  /\ At(p, c, "sysret")
  /\ pkilled[p] = 0
  /\ kpc' = [kpc EXCEPT ![p].pc = "user"]
  /\ sysret' = [sysret EXCEPT ![p] = NoRet]
  /\ UNCHANGED <<pstate, pchan, pkilled, pxstate, ppid, pparent, nextpid, slk,
                 cproc, ctx, spc, ticks, ci, panicked, exited>>

\* the user program of p makes a system call
syscall(p, c, t) ==
  /\ At(p, c, "user")
  /\ pkilled[p] = 0
  /\ kpc' = [kpc EXCEPT ![p] = t]
  /\ UNCHANGED <<pstate, pchan, pkilled, pxstate, ppid, pparent, nextpid, slk,
                 cproc, ctx, spc, ticks, ci, sysret, panicked, exited>>

sys_fork(p, c) ==
  /\ nextpid <= MaxPid
  /\ syscall(p, c, [Thread("ap_scan") EXCEPT !.i = 1])

\* the user program of init never calls exit()
sys_exit(p, c, s) ==
  /\ p # initproc
  /\ syscall(p, c, [Thread("x_init") EXCEPT !.a = s])

sys_wait(p, c, addr) == syscall(p, c, [Thread("w_acq") EXCEPT !.a = addr])

\* the user program of init only forks and waits
sys_kill(p, c, pid) ==
  /\ p # initproc
  /\ syscall(p, c, [Thread("k_scan") EXCEPT !.i = 1, !.a = pid])

sys_sleep(p, c, n) ==
  /\ p # initproc
  /\ syscall(p, c, [Thread("ss_acq") EXCEPT !.a = n])

\* ---- fork(), allocproc() --------------------------------------------------
\* allocproc(): acquire(&p->lock); if(p->state == UNUSED) goto found;
\* else release(&p->lock); after the last descriptor allocproc() returns 0
\* and fork() returns -1
ap_scan(p, c) ==
  /\ At(p, c, "ap_scan")
  /\ LET np == kpc[p].i IN
       /\ slk[np] = 0
       /\ IF pstate[np] = "UNUSED"
            THEN /\ slk' = [slk EXCEPT ![np] = c]
                 /\ kpc' = [kpc EXCEPT ![p].pc = "ap_found"]
                 /\ UNCHANGED sysret
            ELSE /\ UNCHANGED slk
                 /\ IF np < NPROC
                      THEN /\ kpc' = [kpc EXCEPT ![p].i = np + 1]
                           /\ UNCHANGED sysret
                      ELSE Return(p, "fork", -1, 0)
  /\ UNCHANGED <<pstate, pchan, pkilled, pxstate, ppid, pparent, nextpid,
                 cproc, ctx, spc, ticks, ci, panicked, exited>>

\* allocpid(): under pid_lock, pid = nextpid; nextpid = nextpid + 1
allocpid == nextpid + 1

\* allocproc() with an allocpid() that does not advance nextpid
ap_found_samepid(p, c, mem) ==
  /\ At(p, c, "ap_found")
  /\ nextpid' = nextpid
  /\ LET np == kpc[p].i IN
       CASE mem = "ok" ->
              /\ ppid' = [ppid EXCEPT ![np] = nextpid]
              /\ kpc' = [kpc EXCEPT ![p].pc = "fk_copy"]
              /\ UNCHANGED <<pstate, pchan, pkilled, pxstate, pparent, slk, sysret>>
         [] mem = "tf" ->
              /\ ppid' = [ppid EXCEPT ![np] = nextpid]
              /\ slk' = Rel(np)
              /\ Return(p, "fork", -1, 0)
              /\ UNCHANGED <<pstate, pchan, pkilled, pxstate, pparent>>
         [] mem = "pt" ->
              /\ freeproc(np)
              /\ slk' = Rel(np)
              /\ Return(p, "fork", -1, 0)
  /\ UNCHANGED <<cproc, ctx, spc, ticks, ci, panicked, exited>>

\* allocproc() found: p->pid = allocpid(); kalloc() of the trapframe and
\* proc_pagetable() may fail for lack of memory:
\*   "tf": kalloc fails:          release(&p->lock); return 0
\*   "pt": proc_pagetable fails:  freeproc(p); release(&p->lock); return 0
\*   "ok": context set up, allocproc returns p with p->lock held
ap_found(p, c, mem) ==
  /\ At(p, c, "ap_found")
  /\ nextpid' = allocpid
  /\ LET np == kpc[p].i IN
       CASE mem = "ok" ->
              /\ ppid' = [ppid EXCEPT ![np] = nextpid]
              /\ kpc' = [kpc EXCEPT ![p].pc = "fk_copy"]
              /\ UNCHANGED <<pstate, pchan, pkilled, pxstate, pparent, slk, sysret>>
         [] mem = "tf" ->
              /\ ppid' = [ppid EXCEPT ![np] = nextpid]
              /\ slk' = Rel(np)
              /\ Return(p, "fork", -1, 0)
              /\ UNCHANGED <<pstate, pchan, pkilled, pxstate, pparent>>
         [] mem = "pt" ->
              /\ freeproc(np)
              /\ slk' = Rel(np)
              /\ Return(p, "fork", -1, 0)
  /\ UNCHANGED <<cproc, ctx, spc, ticks, ci, panicked, exited>>

\* fork() after allocproc(): uvmcopy() may fail: freeproc(np); release; -1
\* else np->parent = p; ...; np->state = RUNNABLE; release(&np->lock);
\* the child's first swtch goes to forkret (allocproc set context.ra)
fk_copy(p, c, mem) ==
  /\ At(p, c, "fk_copy")
  /\ LET np == kpc[p].i IN
       CASE mem = "ok" ->
              /\ pparent' = [pparent EXCEPT ![np] = p]
              /\ pstate'  = [pstate EXCEPT ![np] = "RUNNABLE"]
              /\ slk' = Rel(np)
              /\ kpc' = [kpc EXCEPT ![p] = Thread("sysret"), ![np] = Thread("forkret")]
              /\ sysret' = [sysret EXCEPT ![p] = [sys |-> "fork", val |-> ppid[np], x |-> 0],
                                          ![np] = NoRet]
              /\ UNCHANGED <<pchan, pkilled, pxstate, ppid>>
         [] mem = "fail" ->
              /\ freeproc(np)
              /\ slk' = Rel(np)
              /\ Return(p, "fork", -1, 0)
  /\ UNCHANGED <<nextpid, cproc, ctx, spc, ticks, ci, panicked, exited>>

\* ---- exit() -------------------------------------------------------------
\* acquire(&initproc->lock); wakeup1(initproc); release(&initproc->lock)
x_init(p, c) ==
  /\ At(p, c, "x_init")
  /\ slk[initproc] = 0
  /\ pstate' = wakeup1(pstate, initproc)
  /\ kpc' = [kpc EXCEPT ![p].pc = "x_par"]
  /\ UNCHANGED <<pchan, pkilled, pxstate, ppid, pparent, nextpid, slk,
                 cproc, ctx, spc, ticks, ci, sysret, panicked, exited>>

\* acquire(&p->lock); original_parent = p->parent; release(&p->lock)
x_par(p, c) ==
  /\ At(p, c, "x_par")
  /\ slk[p] = 0
  /\ kpc' = [kpc EXCEPT ![p].pc = "x_op_acq", ![p].b = pparent[p]]
  /\ UNCHANGED <<pstate, pchan, pkilled, pxstate, ppid, pparent, nextpid, slk,
                 cproc, ctx, spc, ticks, ci, sysret, panicked, exited>>

\* acquire(&original_parent->lock)
x_op_acq(p, c) ==
  /\ At(p, c, "x_op_acq")
  /\ Acq(c, kpc[p].b)
  /\ kpc' = [kpc EXCEPT ![p].pc = "x_p_acq"]
  /\ UNCHANGED <<pstate, pchan, pkilled, pxstate, ppid, pparent, nextpid,
                 cproc, ctx, spc, ticks, ci, sysret, panicked, exited>>

\* acquire(&p->lock); reparent(p) starts
x_p_acq(p, c) ==
  /\ At(p, c, "x_p_acq")
  /\ Acq(c, p)
  /\ kpc' = [kpc EXCEPT ![p].pc = "rp_chk", ![p].i = 1]
  /\ UNCHANGED <<pstate, pchan, pkilled, pxstate, ppid, pparent, nextpid,
                 cproc, ctx, spc, ticks, ci, sysret, panicked, exited>>

\* a reparent() that leaves every child with its parent
rp_chk_nochild(p, c) ==
  /\ At(p, c, "rp_chk")
  /\ LET pp == kpc[p].i IN
       kpc' = [kpc EXCEPT ![p] =
                 IF pp < NPROC THEN [@ EXCEPT !.i = pp + 1]
                 ELSE [@ EXCEPT !.pc = "x_fin", !.i = 0]]
  /\ UNCHANGED <<pstate, pchan, pkilled, pxstate, ppid, pparent, nextpid, slk,
                 cproc, ctx, spc, ticks, ci, sysret, panicked, exited>>

\* reparent(): if(pp->parent == p), read without pp->lock
rp_chk(p, c) ==
  /\ At(p, c, "rp_chk")
  /\ LET pp == kpc[p].i IN
       kpc' = [kpc EXCEPT ![p] =
                 IF pparent[pp] = p THEN [@ EXCEPT !.pc = "rp_set"]
                 ELSE IF pp < NPROC THEN [@ EXCEPT !.i = pp + 1]
                 ELSE [@ EXCEPT !.pc = "x_fin", !.i = 0]]
  /\ UNCHANGED <<pstate, pchan, pkilled, pxstate, ppid, pparent, nextpid, slk,
                 cproc, ctx, spc, ticks, ci, sysret, panicked, exited>>

\* reparent(): acquire(&pp->lock); pp->parent = initproc; release(&pp->lock)
rp_set(p, c) ==
  /\ At(p, c, "rp_set")
  /\ LET pp == kpc[p].i IN
       /\ slk[pp] = 0
       /\ pparent' = [pparent EXCEPT ![pp] = initproc]
       /\ kpc' = [kpc EXCEPT ![p] =
                    IF pp < NPROC THEN [@ EXCEPT !.pc = "rp_chk", !.i = pp + 1]
                    ELSE [@ EXCEPT !.pc = "x_fin", !.i = 0]]
  /\ UNCHANGED <<pstate, pchan, pkilled, pxstate, ppid, nextpid, slk,
                 cproc, ctx, spc, ticks, ci, sysret, panicked, exited>>

\* exit() that forgets to record the status
x_fin_nostatus(p, c) ==
  /\ At(p, c, "x_fin")
  /\ pstate'  = [wakeup1(pstate, kpc[p].b) EXCEPT ![p] = "ZOMBIE"]
  /\ exited'  = [exited EXCEPT ![ppid[p]] = {kpc[p].a}]
  /\ slk' = Rel(kpc[p].b)
  /\ sched(p, c, Thread("x_zombie_exit"))
  /\ UNCHANGED <<pchan, pkilled, pxstate, ppid, pparent, nextpid,
                 cproc, spc, ticks, ci, sysret>>

\* wakeup1(original_parent); p->xstate = status; p->state = ZOMBIE;
\* release(&original_parent->lock); sched(); a return from sched() would
\* be panic("zombie exit")
x_fin(p, c) ==
  /\ At(p, c, "x_fin")
  /\ pstate'  = [wakeup1(pstate, kpc[p].b) EXCEPT ![p] = "ZOMBIE"]
  /\ pxstate' = [pxstate EXCEPT ![p] = kpc[p].a]
  /\ exited'  = [exited EXCEPT ![ppid[p]] = {kpc[p].a}]
  /\ slk' = Rel(kpc[p].b)
  /\ sched(p, c, Thread("x_zombie_exit"))
  /\ UNCHANGED <<pchan, pkilled, ppid, pparent, nextpid,
                 cproc, spc, ticks, ci, sysret>>

\* ---- wait() -------------------------------------------------------------
\* acquire(&p->lock); for(;;){ havekids = 0; np = proc
w_acq(p, c) ==
  /\ At(p, c, "w_acq")
  /\ Acq(c, p)
  /\ kpc' = [kpc EXCEPT ![p].pc = "w_chk", ![p].i = 1, ![p].b = 0]
  /\ UNCHANGED <<pstate, pchan, pkilled, pxstate, ppid, pparent, nextpid,
                 cproc, ctx, spc, ticks, ci, sysret, panicked, exited>>

\* if(np->parent == p), read without np->lock
w_chk(p, c) ==
  /\ At(p, c, "w_chk")
  /\ LET np == kpc[p].i IN
       kpc' = [kpc EXCEPT ![p] =
                 IF pparent[np] = p THEN [@ EXCEPT !.pc = "w_np"]
                 ELSE IF np < NPROC THEN [@ EXCEPT !.i = np + 1]
                 ELSE [@ EXCEPT !.pc = "w_end", !.i = 0]]
  /\ UNCHANGED <<pstate, pchan, pkilled, pxstate, ppid, pparent, nextpid, slk,
                 cproc, ctx, spc, ticks, ci, sysret, panicked, exited>>

\* wait() that reaps a child in any state
w_np_anystate(p, c) ==
  /\ At(p, c, "w_np")
  /\ LET np == kpc[p].i IN
       /\ slk[np] = 0
       /\ freeproc(np)
       /\ exited' = [exited EXCEPT ![ppid[np]] = {}]
       /\ slk' = Rel(p)
       /\ Return(p, "wait", ppid[np], IF kpc[p].a = "ok" THEN pxstate[np] ELSE 0)
  /\ UNCHANGED <<nextpid, cproc, ctx, spc, ticks, ci, panicked>>

\* acquire(&np->lock); havekids = 1; if(np->state == ZOMBIE){ pid = np->pid;
\*   if(addr != 0 && copyout(...) < 0){ release both; return -1; }
\*   freeproc(np); release both; return pid; }
\* release(&np->lock); next descriptor
w_np(p, c) ==
  /\ At(p, c, "w_np")
  /\ LET np == kpc[p].i IN
       /\ slk[np] = 0
       /\ IF pstate[np] = "ZOMBIE" THEN
            IF kpc[p].a = "bad" THEN
              /\ slk' = Rel(p)
              /\ Return(p, "wait", -1, 0)
              /\ UNCHANGED <<pstate, pchan, pkilled, pxstate, ppid, pparent, exited>>
            ELSE
              /\ freeproc(np)
              /\ exited' = [exited EXCEPT ![ppid[np]] = {}]
              /\ slk' = Rel(p)
              /\ Return(p, "wait", ppid[np], IF kpc[p].a = "ok" THEN pxstate[np] ELSE 0)
          ELSE
            /\ kpc' = [kpc EXCEPT ![p] =
                         IF np < NPROC THEN [@ EXCEPT !.pc = "w_chk", !.i = np + 1, !.b = 1]
                         ELSE [@ EXCEPT !.pc = "w_end", !.i = 0, !.b = 1]]
            /\ UNCHANGED <<pstate, pchan, pkilled, pxstate, ppid, pparent, exited,
                           sysret, slk>>
  /\ UNCHANGED <<nextpid, cproc, ctx, spc, ticks, ci, panicked>>

\* if(!havekids || p->killed){ release(&p->lock); return -1; }
\* sleep(p, &p->lock): lk is p->lock, so: p->chan = p; p->state = SLEEPING; sched()
w_end(p, c) ==
  /\ At(p, c, "w_end")
  /\ IF kpc[p].b = 0 \/ pkilled[p] = 1
       THEN /\ slk' = Rel(p)
            /\ Return(p, "wait", -1, 0)
            /\ UNCHANGED <<pstate, pchan, ctx, panicked>>
       ELSE /\ pchan'  = [pchan EXCEPT ![p] = p]
            /\ pstate' = [pstate EXCEPT ![p] = "SLEEPING"]
            /\ UNCHANGED <<slk, sysret>>
            /\ sched(p, c, [kpc[p] EXCEPT !.pc = "w_wake"])
  /\ UNCHANGED <<pkilled, pxstate, ppid, pparent, nextpid,
                 cproc, spc, ticks, ci, exited>>

\* sleep() after sched(): p->chan = 0; back to the top of wait()'s for(;;)
w_wake(p, c) ==
  /\ At(p, c, "w_wake")
  /\ pchan' = [pchan EXCEPT ![p] = 0]
  /\ kpc' = [kpc EXCEPT ![p].pc = "w_chk", ![p].i = 1, ![p].b = 0]
  /\ UNCHANGED <<pstate, pkilled, pxstate, ppid, pparent, nextpid, slk,
                 cproc, ctx, spc, ticks, ci, sysret, panicked, exited>>

\* ---- kill() -------------------------------------------------------------
\* acquire(&p->lock); if(p->pid == pid){ p->killed = 1; if(p->state ==
\* SLEEPING) p->state = RUNNABLE; release; return 0; } release; after the
\* last descriptor return -1
k_scan(p, c) ==
  /\ At(p, c, "k_scan")
  /\ LET q == kpc[p].i IN
       /\ slk[q] = 0
       /\ IF ppid[q] = kpc[p].a
            THEN /\ pkilled' = [pkilled EXCEPT ![q] = 1]
                 /\ pstate' = [pstate EXCEPT ![q] =
                                 IF @ = "SLEEPING" THEN "RUNNABLE" ELSE @]
                 /\ Return(p, "kill", 0, 0)
            ELSE /\ UNCHANGED <<pkilled, pstate>>
                 /\ IF q < NPROC
                      THEN /\ kpc' = [kpc EXCEPT ![p].i = q + 1]
                           /\ UNCHANGED sysret
                      ELSE Return(p, "kill", -1, 0)
  /\ UNCHANGED <<pchan, pxstate, ppid, pparent, nextpid, slk,
                 cproc, ctx, spc, ticks, ci, panicked, exited>>

\* ---- sys_sleep(), sleep() -------------------------------------------------
\* acquire(&tickslock); ticks0 = ticks
ss_acq(p, c) ==
  /\ At(p, c, "ss_acq")
  /\ Acq(c, TicksLock)
  /\ kpc' = [kpc EXCEPT ![p].pc = "ss_loop", ![p].b = ticks]
  /\ UNCHANGED <<pstate, pchan, pkilled, pxstate, ppid, pparent, nextpid,
                 cproc, ctx, spc, ticks, ci, sysret, panicked, exited>>

\* while(ticks - ticks0 < n){ if(killed){ release; return -1; }
\*   sleep(&ticks, &tickslock); } release(&tickslock); return 0
ss_loop(p, c) ==
  /\ At(p, c, "ss_loop")
  /\ IF ticks - kpc[p].b < kpc[p].a
       THEN IF pkilled[p] = 1
              THEN /\ slk' = Rel(TicksLock)
                   /\ Return(p, "sleep", -1, 0)
              ELSE /\ kpc' = [kpc EXCEPT ![p].pc = "sl_acq"]
                   /\ UNCHANGED <<slk, sysret>>
       ELSE /\ slk' = Rel(TicksLock)
            /\ Return(p, "sleep", 0, 0)
  /\ UNCHANGED <<pstate, pchan, pkilled, pxstate, ppid, pparent, nextpid,
                 cproc, ctx, spc, ticks, ci, panicked, exited>>

\* sleep() that gives up lk before it has p->lock
sl_acq_unlocked(p, c) ==
  /\ At(p, c, "sl_acq")
  /\ IF slk[TicksLock] = c
       THEN /\ slk' = Rel(TicksLock)
            /\ UNCHANGED kpc
       ELSE /\ Acq(c, p)
            /\ kpc' = [kpc EXCEPT ![p].pc = "sl_rel"]
  /\ UNCHANGED <<pstate, pchan, pkilled, pxstate, ppid, pparent, nextpid,
                 cproc, ctx, spc, ticks, ci, sysret, panicked, exited>>

\* sleep(chan, lk) with lk != &p->lock: acquire(&p->lock)
sl_acq(p, c) ==
  /\ At(p, c, "sl_acq")
  /\ Acq(c, p)
  /\ kpc' = [kpc EXCEPT ![p].pc = "sl_rel"]
  /\ UNCHANGED <<pstate, pchan, pkilled, pxstate, ppid, pparent, nextpid,
                 cproc, ctx, spc, ticks, ci, sysret, panicked, exited>>

\* sleep() that goes on to sched() with lk still held
sl_rel_keeplock(p, c) ==
  /\ At(p, c, "sl_rel")
  /\ kpc' = [kpc EXCEPT ![p].pc = "sl_sleep"]
  /\ UNCHANGED <<pstate, pchan, pkilled, pxstate, ppid, pparent, nextpid, slk,
                 cproc, ctx, spc, ticks, ci, sysret, panicked, exited>>

\* release(lk)
sl_rel(p, c) ==
  /\ At(p, c, "sl_rel")
  /\ slk' = [slk EXCEPT ![TicksLock] = IF @ = c THEN 0 ELSE @]
  /\ kpc' = [kpc EXCEPT ![p].pc = "sl_sleep"]
  /\ UNCHANGED <<pstate, pchan, pkilled, pxstate, ppid, pparent, nextpid,
                 cproc, ctx, spc, ticks, ci, sysret, panicked, exited>>

\* p->chan = chan; p->state = SLEEPING; sched()
sl_sleep(p, c) ==
  /\ At(p, c, "sl_sleep")
  /\ pchan'  = [pchan EXCEPT ![p] = TicksChan]
  /\ pstate' = [pstate EXCEPT ![p] = "SLEEPING"]
  /\ UNCHANGED slk
  /\ sched(p, c, [kpc[p] EXCEPT !.pc = "sl_wake"])
  /\ UNCHANGED <<pkilled, pxstate, ppid, pparent, nextpid,
                 cproc, spc, ticks, ci, sysret, exited>>

\* sleep() that returns without clearing p->chan
sl_wake_keepchan(p, c) ==
  /\ At(p, c, "sl_wake")
  /\ slk' = Rel(p)
  /\ kpc' = [kpc EXCEPT ![p].pc = "sl_reacq"]
  /\ UNCHANGED <<pstate, pchan, pkilled, pxstate, ppid, pparent, nextpid,
                 cproc, ctx, spc, ticks, ci, sysret, panicked, exited>>

\* after sched(): p->chan = 0; release(&p->lock)
sl_wake(p, c) ==
  /\ At(p, c, "sl_wake")
  /\ pchan' = [pchan EXCEPT ![p] = 0]
  /\ slk' = Rel(p)
  /\ kpc' = [kpc EXCEPT ![p].pc = "sl_reacq"]
  /\ UNCHANGED <<pstate, pkilled, pxstate, ppid, pparent, nextpid,
                 cproc, ctx, spc, ticks, ci, sysret, panicked, exited>>

\* acquire(lk); sleep() returns into sys_sleep()'s while
sl_reacq(p, c) ==
  /\ At(p, c, "sl_reacq")
  /\ Acq(c, TicksLock)
  /\ kpc' = [kpc EXCEPT ![p].pc = "ss_loop"]
  /\ UNCHANGED <<pstate, pchan, pkilled, pxstate, ppid, pparent, nextpid,
                 cproc, ctx, spc, ticks, ci, sysret, panicked, exited>>

\* ---- clockintr() on hart 1 (cpuid() == 0), wakeup(&ticks) -----------------
\* the timer interrupt is taken when the hart holds no spinlock (push_off
\* keeps interrupts off otherwise): acquire(&tickslock); ticks++
ci_tick ==
  /\ panicked = ""
  /\ ci.pc = "none"
  /\ nlocks(1) = 0
  /\ ctx[1] = "proc" => kpc[cproc[1]].pc \in Preemptible
  /\ ticks < MaxTicks
  /\ Acq(1, TicksLock)
  /\ ticks' = ticks + 1
  /\ ci' = [pc |-> "wk_scan", i |-> 1]
  /\ UNCHANGED <<pstate, pchan, pkilled, pxstate, ppid, pparent, nextpid,
                 cproc, ctx, spc, kpc, sysret, panicked, exited>>

\* wakeup(): acquire(&p->lock); if(p->state == SLEEPING && p->chan == chan)
\* p->state = RUNNABLE; release(&p->lock)
wk_scan ==
  /\ panicked = ""
  /\ ci.pc = "wk_scan"
  /\ LET q == ci.i IN
       /\ slk[q] = 0
       /\ pstate' = [pstate EXCEPT ![q] =
                       IF @ = "SLEEPING" /\ pchan[q] = TicksChan THEN "RUNNABLE" ELSE @]
       /\ ci' = IF q < NPROC THEN [pc |-> "wk_scan", i |-> q + 1]
                             ELSE [pc |-> "ci_rel", i |-> 0]
  /\ UNCHANGED <<pchan, pkilled, pxstate, ppid, pparent, nextpid, slk,
                 cproc, ctx, spc, kpc, ticks, sysret, panicked, exited>>

\* clockintr(): release(&tickslock)
ci_rel ==
  /\ panicked = ""
  /\ ci.pc = "ci_rel"
  /\ slk' = Rel(TicksLock)
  /\ ci' = [pc |-> "none", i |-> 0]
  /\ UNCHANGED <<pstate, pchan, pkilled, pxstate, ppid, pparent, nextpid,
                 cproc, ctx, spc, kpc, ticks, sysret, panicked, exited>>

\* fork, exit, wait, kill, yield and the schedulers
NextProc ==
  \/ \E c \in Cpus :
     \/ s_scan(c) /\ UNCHANGED notProc
     \/ s_back(c) /\ UNCHANGED notProc
  \/ \E p \in Procs, c \in Cpus :
     \/ forkret(p, c) /\ UNCHANGED notProc
     \/ yield(p, c) /\ UNCHANGED notProc
     \/ y_rel(p, c) /\ UNCHANGED notProc
     \/ trap_killed(p, c) /\ UNCHANGED notProc
     \/ sys_return(p, c) /\ UNCHANGED notProc
     \/ sys_fork(p, c) /\ UNCHANGED notProc
     \/ \E s \in ExitStatus : sys_exit(p, c, s) /\ UNCHANGED notProc
     \/ \E addr \in WaitAddr : sys_wait(p, c, addr) /\ UNCHANGED notProc
     \/ \E pid \in KillArg : sys_kill(p, c, pid) /\ UNCHANGED notProc
     \/ ap_scan(p, c) /\ UNCHANGED notProc
     \/ \E mem \in {"ok", "tf", "pt"} : ap_found(p, c, mem) /\ UNCHANGED notProc
     \/ \E mem \in {"ok", "fail"} : fk_copy(p, c, mem) /\ UNCHANGED notProc
     \/ x_init(p, c) /\ UNCHANGED notProc
     \/ x_par(p, c) /\ UNCHANGED notProc
     \/ x_op_acq(p, c) /\ UNCHANGED notProc
     \/ x_p_acq(p, c) /\ UNCHANGED notProc
     \/ rp_chk(p, c) /\ UNCHANGED notProc
     \/ rp_set(p, c) /\ UNCHANGED notProc
     \/ x_fin(p, c) /\ UNCHANGED notProc
     \/ w_acq(p, c) /\ UNCHANGED notProc
     \/ w_chk(p, c) /\ UNCHANGED notProc
     \/ w_np(p, c) /\ UNCHANGED notProc
     \/ w_end(p, c) /\ UNCHANGED notProc
     \/ w_wake(p, c) /\ UNCHANGED notProc
     \/ k_scan(p, c) /\ UNCHANGED notProc

\* sys_sleep, clockintr/wakeup, fork, yield and the schedulers
NextSleep ==
  \/ \E c \in Cpus :
     \/ s_scan(c) /\ UNCHANGED notProc
     \/ s_back(c) /\ UNCHANGED notProc
  \/ \E p \in Procs, c \in Cpus :
     \/ forkret(p, c) /\ UNCHANGED notProc
     \/ yield(p, c) /\ UNCHANGED notProc
     \/ y_rel(p, c) /\ UNCHANGED notProc
     \/ sys_return(p, c) /\ UNCHANGED notProc
     \/ sys_fork(p, c) /\ UNCHANGED notProc
     \/ \E n \in SleepArg : sys_sleep(p, c, n) /\ UNCHANGED notProc
     \/ ap_scan(p, c) /\ UNCHANGED notProc
     \/ \E mem \in {"ok", "tf", "pt"} : ap_found(p, c, mem) /\ UNCHANGED notProc
     \/ \E mem \in {"ok", "fail"} : fk_copy(p, c, mem) /\ UNCHANGED notProc
     \/ ss_acq(p, c) /\ UNCHANGED notProc
     \/ ss_loop(p, c) /\ UNCHANGED notProc
     \/ sl_acq(p, c) /\ UNCHANGED notProc
     \/ sl_rel(p, c) /\ UNCHANGED notProc
     \/ sl_sleep(p, c) /\ UNCHANGED notProc
     \/ sl_wake(p, c) /\ UNCHANGED notProc
     \/ sl_reacq(p, c) /\ UNCHANGED notProc
  \/ ci_tick /\ UNCHANGED notProc
  \/ wk_scan /\ UNCHANGED notProc
  \/ ci_rel /\ UNCHANGED notProc

(***************************************************************************)
(* kernel/log.c                                                            *)
(***************************************************************************)
LOGSIZE == MAXOPBLOCKS * 3

\* the file system calls in flight, the home blocks they write, the data
\* they write
LogOps    == 1..NOps
LogBlocks == 1..LOGSIZE
Vals      == {0, 1}

\* log.size is the nlog of the superblock: the log area is the header block
\* and log.size - 1 data blocks
LogSizes == {LOGSIZE, LOGSIZE + 1}

OpAt(pc) == [pc |-> pc, t |-> 0, b |-> 0]

Range(f) == {f[i] : i \in DOMAIN f}

\* the state initlog() leaves on a file system with an empty log
InitLog ==
  /\ outstanding = 0
  /\ committing = 0
  /\ lh = <<>>
  /\ dhead = <<>>
  /\ dlog = [i \in 1..LOGSIZE |-> 0]
  /\ dhome = [b \in LogBlocks |-> 0]
  /\ cdata = [b \in LogBlocks |-> 0]
  /\ opc = [p \in LogOps |-> OpAt("idle")]
  /\ opb = [p \in LogOps |-> {}]
  /\ rec = [pc |-> "none", t |-> 0]
  /\ lpanic = ""
  /\ committed = [b \in LogBlocks |-> 0]
  /\ lpin = [b \in LogBlocks |-> 0]

\* the kernel runs and recover_from_log() is over
LogUp == lpanic = "" /\ rec.pc = "none"

\* wakeup(&log): every call asleep in begin_op() goes back to its while(1)
wakeup_log(pcs) ==
  [p \in LogOps |-> IF pcs[p].pc = "b_sleep" THEN OpAt("b_acq") ELSE pcs[p]]

\* begin_op() that does not look at log.committing
begin_op_nocommitting(p) ==
  /\ LogUp
  /\ opc[p].pc \in {"idle", "b_acq"}
  /\ IF Len(lh) + (outstanding + 1) * MAXOPBLOCKS > LOGSIZE
       THEN /\ opc' = [opc EXCEPT ![p] = OpAt("b_sleep")]
            /\ UNCHANGED <<outstanding, opb>>
       ELSE /\ outstanding' = outstanding + 1
            /\ opc' = [opc EXCEPT ![p] = OpAt("op")]
            /\ opb' = [opb EXCEPT ![p] = {}]
  /\ UNCHANGED lpin
  /\ UNCHANGED <<committing, lh, logsize, dhead, dlog, dhome, cdata, rec,
                 lpanic, committed>>

\* begin_op(): one turn of while(1) under log.lock: sleep(&log, &log.lock)
\* if log.committing or if the log may run out of space, else
\* log.outstanding += 1
begin_op(p) ==
  /\ LogUp
  /\ opc[p].pc \in {"idle", "b_acq"}
  /\ IF committing = 1 \/ Len(lh) + (outstanding + 1) * MAXOPBLOCKS > LOGSIZE
       THEN /\ opc' = [opc EXCEPT ![p] = OpAt("b_sleep")]
            /\ UNCHANGED <<outstanding, opb>>
       ELSE /\ outstanding' = outstanding + 1
            /\ opc' = [opc EXCEPT ![p] = OpAt("op")]
            /\ opb' = [opb EXCEPT ![p] = {}]
  /\ UNCHANGED lpin
  /\ UNCHANGED <<committing, lh, logsize, dhead, dlog, dhome, cdata, rec,
                 lpanic, committed>>

\* a call between begin_op() and end_op() writes v into the buffer of block
\* b, which it holds locked, and calls log_write(): the two tests before
\* acquire(&log.lock).  A call writes at most MAXOPBLOCKS distinct blocks.
log_write(p, b, v) ==
  /\ LogUp
  /\ opc[p].pc = "op"
  /\ Cardinality(opb[p] \cup {b}) <= MAXOPBLOCKS
  /\ \A q \in LogOps : ~(opc[q].pc = "lw" /\ opc[q].b = b)
  /\ cdata' = [cdata EXCEPT ![b] = v]
  /\ IF Len(lh) >= LOGSIZE \/ Len(lh) >= logsize - 1
       THEN /\ lpanic' = "too big a transaction"
            /\ UNCHANGED opc
       ELSE IF outstanding < 1
         THEN /\ lpanic' = "log_write outside of trans"
              /\ UNCHANGED opc
         ELSE /\ opc' = [opc EXCEPT ![p] = [pc |-> "lw", t |-> 0, b |-> b]]
              /\ UNCHANGED lpanic
  /\ UNCHANGED lpin
  /\ UNCHANGED <<outstanding, committing, lh, logsize, dhead, dlog, dhome,
                 opb, rec, committed>>

\* a log_write() without absorption: every call appends and pins
lw_append_noabsorb(p) ==
  /\ LogUp
  /\ opc[p].pc = "lw"
  /\ LET b == opc[p].b IN
       /\ lh' = Append(lh, b)
       /\ lpin' = [lpin EXCEPT ![b] = @ + 1]
       /\ opb' = [opb EXCEPT ![p] = @ \cup {b}]
  /\ opc' = [opc EXCEPT ![p] = OpAt("op")]
  /\ UNCHANGED <<outstanding, committing, logsize, dhead, dlog, dhome, cdata,
                 rec, lpanic, committed>>

\* log_write() under log.lock: the block is absorbed if it is in the header,
\* else appended (and its buffer pinned); the caller then brelse()s
lw_append(p) ==
  /\ LogUp
  /\ opc[p].pc = "lw"
  /\ LET b == opc[p].b IN
       /\ lh' = IF b \in Range(lh) THEN lh ELSE Append(lh, b)
       /\ lpin' = IF b \in Range(lh) THEN lpin ELSE [lpin EXCEPT ![b] = @ + 1]
       /\ opb' = [opb EXCEPT ![p] = @ \cup {b}]
  /\ opc' = [opc EXCEPT ![p] = OpAt("op")]
  /\ UNCHANGED <<outstanding, committing, logsize, dhead, dlog, dhome, cdata,
                 rec, lpanic, committed>>

\* end_op() under log.lock: log.outstanding -= 1; panic if log.committing;
\* the last call out sets log.committing and goes on to commit(), the
\* others wakeup(&log)
end_op(p) ==
  /\ LogUp
  /\ opc[p].pc = "op"
  /\ outstanding' = outstanding - 1
  /\ IF committing = 1
       THEN /\ lpanic' = "log.committing"
            /\ UNCHANGED <<committing, opc>>
       ELSE /\ UNCHANGED lpanic
            /\ IF outstanding = 1
                 THEN /\ committing' = 1
                      /\ opc' = [opc EXCEPT ![p] = OpAt("commit")]
                 ELSE /\ UNCHANGED committing
                      /\ opc' = [wakeup_log(opc) EXCEPT ![p] = OpAt("idle")]
  /\ UNCHANGED lpin
  /\ UNCHANGED <<lh, logsize, dhead, dlog, dhome, cdata, opb, rec, committed>>

\* commit(): if(log.lh.n > 0) write_log() ...
commit(p) ==
  /\ LogUp
  /\ opc[p].pc = "commit"
  /\ opc' = [opc EXCEPT ![p] =
               IF Len(lh) > 0 THEN OpAt("write_log") ELSE OpAt("e_done")]
  /\ UNCHANGED lpin
  /\ UNCHANGED <<outstanding, committing, lh, logsize, dhead, dlog, dhome,
                 cdata, opb, rec, lpanic, committed>>

\* write_log(): one turn of its loop: the data of the buffer of block[tail]
\* goes to log block tail + 1, bwrite()
write_log(p) ==
  /\ LogUp
  /\ opc[p].pc = "write_log"
  /\ LET t == opc[p].t + 1 IN
       /\ dlog' = [dlog EXCEPT ![t] = cdata[lh[t]]]
       /\ opc' = [opc EXCEPT ![p] =
                    IF t = Len(lh) THEN OpAt("write_head") ELSE [@ EXCEPT !.t = t]]
  /\ UNCHANGED lpin
  /\ UNCHANGED <<outstanding, committing, lh, logsize, dhead, dhome, cdata,
                 opb, rec, lpanic, committed>>

\* commit() that goes on to install_trans() without writing the header
write_head_skipped(p) ==
  /\ LogUp
  /\ opc[p].pc = "write_head"
  /\ opc' = [opc EXCEPT ![p] = OpAt("install")]
  /\ UNCHANGED lpin
  /\ UNCHANGED <<outstanding, committing, lh, logsize, dhead, dlog, dhome, cdata,
                 opb, rec, lpanic, committed>>

\* write_head() of commit(): the header with n > 0 goes to disk; this is
\* the commit, from here on the data of the logged blocks is what the
\* calls of the transaction wrote
write_head(p) ==
  /\ LogUp
  /\ opc[p].pc = "write_head"
  /\ dhead' = lh
  /\ committed' = [b \in LogBlocks |-> IF b \in Range(lh) THEN cdata[b] ELSE committed[b]]
  /\ opc' = [opc EXCEPT ![p] = OpAt("install")]
  /\ UNCHANGED lpin
  /\ UNCHANGED <<outstanding, committing, lh, logsize, dlog, dhome, cdata,
                 opb, rec, lpanic>>

\* install_trans(): one turn of its loop: log block tail + 1 is copied into
\* the buffer of block[tail], bwrite() to its home; commit() calls
\* install_trans(0), which also bunpin()s the buffer
InstallBlock(t) ==
  /\ dhome' = [dhome EXCEPT ![lh[t]] = dlog[t]]
  /\ cdata' = [cdata EXCEPT ![lh[t]] = dlog[t]]

install_trans(p) ==
  /\ LogUp
  /\ opc[p].pc = "install"
  /\ LET t == opc[p].t + 1 IN
       /\ InstallBlock(t)
       /\ lpin' = [lpin EXCEPT ![lh[t]] = @ - 1]
       /\ opc' = [opc EXCEPT ![p] =
                    IF t = Len(lh) THEN OpAt("truncate") ELSE [@ EXCEPT !.t = t]]
  /\ UNCHANGED <<outstanding, committing, lh, logsize, dhead, dlog, opb, rec,
                 lpanic, committed>>

\* commit(): log.lh.n = 0; write_head()
truncate(p) ==
  /\ LogUp
  /\ opc[p].pc = "truncate"
  /\ lh' = <<>>
  /\ dhead' = <<>>
  /\ opc' = [opc EXCEPT ![p] = OpAt("e_done")]
  /\ UNCHANGED lpin
  /\ UNCHANGED <<outstanding, committing, logsize, dlog, dhome, cdata, opb,
                 rec, lpanic, committed>>

\* end_op() after commit(): under log.lock log.committing = 0; wakeup(&log)
e_done(p) ==
  /\ LogUp
  /\ opc[p].pc = "e_done"
  /\ committing' = 0
  /\ opc' = [wakeup_log(opc) EXCEPT ![p] = OpAt("idle")]
  /\ UNCHANGED lpin
  /\ UNCHANGED <<outstanding, lh, logsize, dhead, dlog, dhome, cdata, opb,
                 rec, lpanic, committed>>

\* the machine stops at any point and boots again: memory is lost, the disk
\* stays; fsinit() calls initlog(), which starts recover_from_log()
crash ==
  /\ rec.pc # "read_head"
  /\ outstanding' = 0
  /\ committing' = 0
  /\ lh' = <<>>
  /\ cdata' = dhome
  /\ opc' = [p \in LogOps |-> OpAt("idle")]
  /\ opb' = [p \in LogOps |-> {}]
  /\ rec' = [pc |-> "read_head", t |-> 0]
  /\ lpin' = [b \in LogBlocks |-> 0]
  /\ lpanic' = ""
  /\ UNCHANGED <<logsize, dhead, dlog, dhome, committed>>

\* a recovery that clears the header on disk before install_trans()
read_head_clearsdisk ==
  /\ rec.pc = "read_head"
  /\ lh' = dhead
  /\ dhead' = <<>>
  /\ rec' = [pc |-> IF Len(dhead) > 0 THEN "install" ELSE "truncate", t |-> 0]
  /\ UNCHANGED lpin
  /\ UNCHANGED <<outstanding, committing, logsize, dlog, dhome, cdata,
                 opc, opb, lpanic, committed>>

\* read_head(): the header on disk is read into log.lh
read_head ==
  /\ rec.pc = "read_head"
  /\ lh' = dhead
  /\ rec' = [pc |-> IF Len(dhead) > 0 THEN "install" ELSE "truncate", t |-> 0]
  /\ UNCHANGED lpin
  /\ UNCHANGED <<outstanding, committing, logsize, dhead, dlog, dhome, cdata,
                 opc, opb, lpanic, committed>>

\* install_trans(1) of recover_from_log(): one turn of its loop
recover_install ==
  /\ rec.pc = "install"
  /\ LET t == rec.t + 1 IN
       /\ InstallBlock(t)
       /\ rec' = IF t = Len(lh) THEN [pc |-> "truncate", t |-> 0]
                                ELSE [rec EXCEPT !.t = t]
  /\ UNCHANGED lpin
  /\ UNCHANGED <<outstanding, committing, lh, logsize, dhead, dlog, opc, opb,
                 lpanic, committed>>

\* recover_from_log(): log.lh.n = 0; write_head()
recover_truncate ==
  /\ rec.pc = "truncate"
  /\ lh' = <<>>
  /\ dhead' = <<>>
  /\ rec' = [pc |-> "none", t |-> 0]
  /\ UNCHANGED lpin
  /\ UNCHANGED <<outstanding, committing, logsize, dlog, dhome, cdata, opc,
                 opb, lpanic, committed>>

\* the blocks a call may pick when block numbers do not matter: a block of
\* this transaction, or the next block no call has picked yet
Picked == Range(lh) \cup {opc[q].b : q \in {r \in LogOps : opc[r].pc = "lw"}}
NextBlocks == {b \in LogBlocks : b \in Picked \/ b = Cardinality(Picked) + 1}

\* concurrent file system calls, each writing up to MAXOPBLOCKS blocks
NextLog ==
  \/ \E p \in LogOps :
     \/ begin_op(p) /\ UNCHANGED notLog
     \/ \E b \in NextBlocks : log_write(p, b, 0) /\ UNCHANGED notLog
     \/ lw_append(p) /\ UNCHANGED notLog
     \/ end_op(p) /\ UNCHANGED notLog
     \/ commit(p) /\ UNCHANGED notLog
     \/ write_log(p) /\ UNCHANGED notLog
     \/ write_head(p) /\ UNCHANGED notLog
     \/ install_trans(p) /\ UNCHANGED notLog
     \/ truncate(p) /\ UNCHANGED notLog
     \/ e_done(p) /\ UNCHANGED notLog

\* file system calls that write data, crashes and recovery
CrashBlocks == 1..NCrashBlocks

NextCrash ==
  \/ \E p \in LogOps :
     \/ begin_op(p) /\ UNCHANGED notLog
     \/ \E b \in CrashBlocks, v \in Vals : log_write(p, b, v) /\ UNCHANGED notLog
     \/ lw_append(p) /\ UNCHANGED notLog
     \/ end_op(p) /\ UNCHANGED notLog
     \/ commit(p) /\ UNCHANGED notLog
     \/ write_log(p) /\ UNCHANGED notLog
     \/ write_head(p) /\ UNCHANGED notLog
     \/ install_trans(p) /\ UNCHANGED notLog
     \/ truncate(p) /\ UNCHANGED notLog
     \/ e_done(p) /\ UNCHANGED notLog
  \/ crash /\ UNCHANGED notLog
  \/ read_head /\ UNCHANGED notLog
  \/ recover_install /\ UNCHANGED notLog
  \/ recover_truncate /\ UNCHANGED notLog

(***************************************************************************)
(* kernel/bio.c: the block cache.  Buffers are 1..NBUF (bcache.buf[0] ..   *)
(* bcache.buf[NBUF-1]), buckets are 0..NBUFMAP_BUCKET-1; bufmap[k] is the   *)
(* chain of bucket k from bufmap[k].next on.  A critical section of one    *)
(* bucket lock is one step; the scan of bget() for a buffer to recycle,    *)
(* which keeps bucket locks from one bucket to the next, is one step for   *)
(* each acquire and one for each bucket scanned.  Every caller passes      *)
(* dev = ROOTDEV.                                                          *)
(***************************************************************************)
Bufs == 1..NBUF
Buckets == 0..(NBUFMAP_BUCKET - 1)
BThreads == 1..NBThread
Blocknos == 1..NBlockno
ROOTDEV == 1

\* what the caller of bread() does with the buffer before brelse():
\* nothing more ("use"), log_write() ("log"), or bunpin() as install_trans()
\* does ("install")
BModes == {"use", "log", "install"}

\* (((dev)<<27)|(blockno)) % NBUFMAP_BUCKET, for blockno < 2^27
BUFMAP_HASH(dev, blockno) == ((dev * 134217728) + blockno) % NBUFMAP_BUCKET

\* old: history, the block number the buffer had before bget() recycled it,
\* kept until bread() returns
BIdle == [pc |-> "idle", mode |-> "", blockno |-> 0, b |-> 0, i |-> 0,
          before_least |-> 0, holding_bucket |-> -1, old |-> 0]

RECURSIVE BootChain(_)
BootChain(n) == IF n = 0 THEN <<>> ELSE <<n>> \o BootChain(n - 1)

\* binit(): every buffer is pushed on the chain of bucket 0; the fields
\* dev, blockno, valid of the static array are zero
binit ==
  /\ bufmap = [k \in Buckets |-> IF k = 0 THEN BootChain(NBUF) ELSE <<>>]
  /\ bdev = [b \in Bufs |-> 0]
  /\ bblockno = [b \in Bufs |-> 0]
  /\ brefcnt = [b \in Bufs |-> 0]
  /\ blastuse = [b \in Bufs |-> 0]
  /\ bvalid = [b \in Bufs |-> 0]
  /\ bslock = [b \in Bufs |-> 0]
  /\ bufmap_locks = [k \in Buckets |-> 0]
  /\ eviction_lock = 0
  /\ bt = [t \in BThreads |-> BIdle]
  /\ pinned = {}
  /\ bpanic = ""

BcUp == bpanic = ""

\* for(b = bcache.bufmap[key].next; b; b = b->next)
\*   if(b->dev == dev && b->blockno == blockno) ...: the first match, 0 if none
RECURSIVE Lookup(_, _, _)
Lookup(chain, dev, blockno) ==
  IF chain = <<>> THEN 0
  ELSE IF bdev[Head(chain)] = dev /\ bblockno[Head(chain)] = blockno
       THEN Head(chain)
       ELSE Lookup(Tail(chain), dev, blockno)

RECURSIVE LeastAnyRef(_, _)
LeastAnyRef(chain, best) ==
  IF chain = <<>> THEN best
  ELSE LeastAnyRef(Tail(chain),
                   IF best = 0 \/ blastuse[Head(chain)] < blastuse[best]
                   THEN Head(chain) ELSE best)

\* the inner loop of the scan over one bucket: best is the buffer
\* before_least->next found so far (0 if none)
RECURSIVE Least(_, _)
Least(chain, best) ==
  IF chain = <<>> THEN best
  ELSE Least(Tail(chain),
             IF /\ brefcnt[Head(chain)] = 0
                /\ (best = 0 \/ blastuse[Head(chain)] < blastuse[best])
             THEN Head(chain) ELSE best)

Remove(chain, b) == SelectSeq(chain, LAMBDA x : x # b)

Key(t) == BUFMAP_HASH(ROOTDEV, bt[t].blockno)

\* BUFMAP_HASH(b->dev, b->blockno) as brelse(), bpin() and bunpin() take it
KeyOf(b) == BUFMAP_HASH(bdev[b], bblockno[b])

\* kernel/sleeplock.c: holdingsleep(&b->lock) for caller t, and the test
\* of acquiresleep(), which sleeps while the lock is held
holdingsleep(b, t) == bslock[b] = t

sleeplock_free(b) == bslock[b] = 0

\* a caller enters bread(dev, blockno); install_trans() does so for the
\* blocks of the header, one at a time
bread_call(t, blockno, mode) ==
  /\ BcUp
  /\ bt[t].pc = "idle"
  /\ mode = "install" =>
       /\ blockno \in pinned
       /\ \A u \in BThreads : ~(bt[u].mode = "install" /\ bt[u].blockno = blockno)
  /\ bt' = [bt EXCEPT ![t] = [BIdle EXCEPT !.pc = "bget", !.mode = mode,
                                           !.blockno = blockno]]
  /\ UNCHANGED <<bufmap, bdev, bblockno, brefcnt, blastuse, bvalid, bslock,
                 bufmap_locks, eviction_lock, pinned, bpanic>>

bget_hit_keeplock(t) ==
  /\ BcUp
  /\ bt[t].pc = "bget"
  /\ bufmap_locks[Key(t)] = 0
  /\ LET b == Lookup(bufmap[Key(t)], ROOTDEV, bt[t].blockno) IN
       IF b # 0
       THEN /\ brefcnt' = [brefcnt EXCEPT ![b] = @ + 1]
            /\ bt' = [bt EXCEPT ![t].pc = "acquiresleep", ![t].b = b]
            /\ UNCHANGED bufmap_locks
       ELSE /\ bt' = [bt EXCEPT ![t].pc = "evict"]
            /\ bufmap_locks' = [bufmap_locks EXCEPT ![Key(t)] = t]
            /\ UNCHANGED brefcnt
  /\ UNCHANGED <<bufmap, bdev, bblockno, blastuse, bvalid, bslock,
                 eviction_lock, pinned, bpanic>>

bget_hit_nosleeplock(t) ==
  /\ BcUp
  /\ bt[t].pc = "bget"
  /\ bufmap_locks[Key(t)] = 0
  /\ LET b == Lookup(bufmap[Key(t)], ROOTDEV, bt[t].blockno) IN
       IF b # 0
       THEN /\ brefcnt' = [brefcnt EXCEPT ![b] = @ + 1]
            /\ bt' = [bt EXCEPT ![t].pc = "bread", ![t].b = b]
       ELSE /\ bt' = [bt EXCEPT ![t].pc = "evict"]
            /\ UNCHANGED brefcnt
  /\ UNCHANGED <<bufmap, bdev, bblockno, blastuse, bvalid, bslock,
                 bufmap_locks, eviction_lock, pinned, bpanic>>

\* bget(): the look-up under the lock of the bucket of the block
bget_hit(t) ==
  /\ BcUp
  /\ bt[t].pc = "bget"
  /\ bufmap_locks[Key(t)] = 0
  /\ LET b == Lookup(bufmap[Key(t)], ROOTDEV, bt[t].blockno) IN
       IF b # 0
       THEN /\ brefcnt' = [brefcnt EXCEPT ![b] = @ + 1]
            /\ bt' = [bt EXCEPT ![t].pc = "acquiresleep", ![t].b = b]
       ELSE /\ bt' = [bt EXCEPT ![t].pc = "evict"]
            /\ UNCHANGED brefcnt
  /\ UNCHANGED <<bufmap, bdev, bblockno, blastuse, bvalid, bslock,
                 bufmap_locks, eviction_lock, pinned, bpanic>>

bget_recheck_skipped(t) ==
  /\ BcUp
  /\ bt[t].pc = "evict"
  /\ eviction_lock = 0
  /\ eviction_lock' = t
  /\ bt' = [bt EXCEPT ![t].pc = "scan_acq", ![t].i = 0]
  /\ UNCHANGED <<bufmap, bdev, bblockno, brefcnt, blastuse, bvalid, bslock,
                 bufmap_locks, pinned, bpanic>>

\* acquire(&bcache.eviction_lock) and the second look-up, which reads the
\* chain without the bucket lock: only the holder of eviction_lock changes
\* chains and block numbers
bget_recheck(t) ==
  /\ BcUp
  /\ bt[t].pc = "evict"
  /\ eviction_lock = 0
  /\ LET b == Lookup(bufmap[Key(t)], ROOTDEV, bt[t].blockno) IN
       IF b # 0
       THEN /\ bufmap_locks[Key(t)] = 0
            /\ brefcnt' = [brefcnt EXCEPT ![b] = @ + 1]
            /\ bt' = [bt EXCEPT ![t].pc = "acquiresleep", ![t].b = b]
            /\ UNCHANGED eviction_lock
       ELSE /\ eviction_lock' = t
            /\ bt' = [bt EXCEPT ![t].pc = "scan_acq", ![t].i = 0]
            /\ UNCHANGED brefcnt
  /\ UNCHANGED <<bufmap, bdev, bblockno, blastuse, bvalid, bslock,
                 bufmap_locks, pinned, bpanic>>

\* acquire(&bcache.bufmap_locks[i]) of the scan
bget_scan_acq(t) ==
  /\ BcUp
  /\ bt[t].pc = "scan_acq"
  /\ bufmap_locks[bt[t].i] = 0
  /\ bufmap_locks' = [bufmap_locks EXCEPT ![bt[t].i] = t]
  /\ bt' = [bt EXCEPT ![t].pc = "scan"]
  /\ UNCHANGED <<bufmap, bdev, bblockno, brefcnt, blastuse, bvalid, bslock,
                 eviction_lock, pinned, bpanic>>

bget_scan_norelease(t) ==
  /\ BcUp
  /\ bt[t].pc = "scan"
  /\ LET i == bt[t].i
         best == Least(bufmap[i], bt[t].before_least)
         newfound == best # bt[t].before_least
         hb == bt[t].holding_bucket IN
       /\ bufmap_locks' =
            IF ~newfound THEN [bufmap_locks EXCEPT ![i] = 0]
            ELSE bufmap_locks
       /\ bt' = [bt EXCEPT ![t].before_least = best,
                           ![t].holding_bucket = IF newfound THEN i ELSE hb,
                           ![t].i = i + 1,
                           ![t].pc = IF i + 1 = NBUFMAP_BUCKET
                                     THEN "pick" ELSE "scan_acq"]
  /\ UNCHANGED <<bufmap, bdev, bblockno, brefcnt, blastuse, bvalid, bslock,
                 eviction_lock, pinned, bpanic>>

\* the scan of bucket i: keep its lock if it holds the least recently used
\* free buffer so far and release the lock kept before, else release it
bget_scan(t) ==
  /\ BcUp
  /\ bt[t].pc = "scan"
  /\ LET i == bt[t].i
         best == Least(bufmap[i], bt[t].before_least)
         newfound == best # bt[t].before_least
         hb == bt[t].holding_bucket IN
       /\ bufmap_locks' =
            IF ~newfound THEN [bufmap_locks EXCEPT ![i] = 0]
            ELSE IF hb # -1 THEN [bufmap_locks EXCEPT ![hb] = 0]
            ELSE bufmap_locks
       /\ bt' = [bt EXCEPT ![t].before_least = best,
                           ![t].holding_bucket = IF newfound THEN i ELSE hb,
                           ![t].i = i + 1,
                           ![t].pc = IF i + 1 = NBUFMAP_BUCKET
                                     THEN "pick" ELSE "scan_acq"]
  /\ UNCHANGED <<bufmap, bdev, bblockno, brefcnt, blastuse, bvalid, bslock,
                 eviction_lock, pinned, bpanic>>

\* b->dev = dev; b->blockno = blockno; b->refcnt = 1; b->valid = 0
Assign(t, b) ==
  /\ bdev' = [bdev EXCEPT ![b] = ROOTDEV]
  /\ bblockno' = [bblockno EXCEPT ![b] = bt[t].blockno]
  /\ brefcnt' = [brefcnt EXCEPT ![b] = 1]
  /\ bvalid' = [bvalid EXCEPT ![b] = 0]

bget_pick_nounlink(t) ==
  /\ BcUp
  /\ bt[t].pc = "pick"
  /\ LET b == bt[t].before_least
         hb == bt[t].holding_bucket IN
       IF b = 0
       THEN /\ bpanic' = "bget: no buffers"
            /\ UNCHANGED <<bufmap, bdev, bblockno, brefcnt, bvalid,
                           bufmap_locks, eviction_lock, bt>>
       ELSE IF hb # Key(t)
       THEN /\ bufmap' = bufmap
            /\ bufmap_locks' = [bufmap_locks EXCEPT ![hb] = 0]
            /\ bt' = [bt EXCEPT ![t].pc = "move", ![t].b = b, ![t].i = 0,
                                ![t].before_least = 0,
                                ![t].holding_bucket = -1]
            /\ UNCHANGED <<bdev, bblockno, brefcnt, bvalid, eviction_lock,
                           bpanic>>
       ELSE /\ Assign(t, b)
            /\ bufmap_locks' = [bufmap_locks EXCEPT ![hb] = 0]
            /\ eviction_lock' = 0
            /\ bt' = [bt EXCEPT ![t].pc = "acquiresleep", ![t].b = b,
                                ![t].i = 0, ![t].before_least = 0,
                                ![t].holding_bucket = -1,
                                ![t].old = bblockno[b]]
            /\ UNCHANGED <<bufmap, bpanic>>
  /\ UNCHANGED <<blastuse, bslock, pinned>>

\* after the scan: panic without a candidate; a candidate of another
\* bucket is unlinked and that bucket's lock released; a candidate of the
\* bucket of the block is assigned in place
bget_pick(t) ==
  /\ BcUp
  /\ bt[t].pc = "pick"
  /\ LET b == bt[t].before_least
         hb == bt[t].holding_bucket IN
       IF b = 0
       THEN /\ bpanic' = "bget: no buffers"
            /\ UNCHANGED <<bufmap, bdev, bblockno, brefcnt, bvalid,
                           bufmap_locks, eviction_lock, bt>>
       ELSE IF hb # Key(t)
       THEN /\ bufmap' = [bufmap EXCEPT ![hb] = Remove(@, b)]
            /\ bufmap_locks' = [bufmap_locks EXCEPT ![hb] = 0]
            /\ bt' = [bt EXCEPT ![t].pc = "move", ![t].b = b, ![t].i = 0,
                                ![t].before_least = 0,
                                ![t].holding_bucket = -1]
            /\ UNCHANGED <<bdev, bblockno, brefcnt, bvalid, eviction_lock,
                           bpanic>>
       ELSE /\ Assign(t, b)
            /\ bufmap_locks' = [bufmap_locks EXCEPT ![hb] = 0]
            /\ eviction_lock' = 0
            /\ bt' = [bt EXCEPT ![t].pc = "acquiresleep", ![t].b = b,
                                ![t].i = 0, ![t].before_least = 0,
                                ![t].holding_bucket = -1,
                                ![t].old = bblockno[b]]
            /\ UNCHANGED <<bufmap, bpanic>>
  /\ UNCHANGED <<blastuse, bslock, pinned>>

bget_move_keepeviction(t) ==
  /\ BcUp
  /\ bt[t].pc = "move"
  /\ bufmap_locks[Key(t)] = 0
  /\ bufmap' = [bufmap EXCEPT ![Key(t)] = <<bt[t].b>> \o @]
  /\ Assign(t, bt[t].b)
  /\ bt' = [bt EXCEPT ![t].pc = "acquiresleep", ![t].old = bblockno[bt[t].b]]
  /\ UNCHANGED <<blastuse, bslock, bufmap_locks, eviction_lock, pinned, bpanic>>

\* acquire(&bcache.bufmap_locks[key]); link b at the head of the chain;
\* assign it; release both locks
bget_move(t) ==
  /\ BcUp
  /\ bt[t].pc = "move"
  /\ bufmap_locks[Key(t)] = 0
  /\ bufmap' = [bufmap EXCEPT ![Key(t)] = <<bt[t].b>> \o @]
  /\ Assign(t, bt[t].b)
  /\ eviction_lock' = 0
  /\ bt' = [bt EXCEPT ![t].pc = "acquiresleep", ![t].old = bblockno[bt[t].b]]
  /\ UNCHANGED <<blastuse, bslock, bufmap_locks, pinned, bpanic>>

\* acquiresleep(&b->lock); return b
acquiresleep(t) ==
  /\ BcUp
  /\ bt[t].pc = "acquiresleep"
  /\ sleeplock_free(bt[t].b)
  /\ bslock' = [bslock EXCEPT ![bt[t].b] = t]
  /\ bt' = [bt EXCEPT ![t].pc = "bread"]
  /\ UNCHANGED <<bufmap, bdev, bblockno, brefcnt, blastuse, bvalid,
                 bufmap_locks, eviction_lock, pinned, bpanic>>

\* bread() after bget(): if(!b->valid){ virtio_disk_rw(b, 0); b->valid = 1; }
bread(t) ==
  /\ BcUp
  /\ bt[t].pc = "bread"
  /\ bvalid' = [bvalid EXCEPT ![bt[t].b] = 1]
  /\ bt' = [bt EXCEPT ![t].pc = IF bt[t].mode = "use" THEN "brelse" ELSE "held",
                      ![t].old = 0]
  /\ UNCHANGED <<bufmap, bdev, bblockno, brefcnt, blastuse, bslock,
                 bufmap_locks, eviction_lock, pinned, bpanic>>

\* log_write() calls bpin(b) for a block that is not yet in the header
bpin(t) ==
  /\ BcUp
  /\ bt[t].pc = "held"
  /\ bt[t].mode = "log"
  /\ IF bt[t].blockno \in pinned
     THEN UNCHANGED <<brefcnt, pinned>>
     ELSE /\ bufmap_locks[KeyOf(bt[t].b)] = 0
          /\ brefcnt' = [brefcnt EXCEPT ![bt[t].b] = @ + 1]
          /\ pinned' = pinned \cup {bt[t].blockno}
  /\ bt' = [bt EXCEPT ![t].pc = "brelse"]
  /\ UNCHANGED <<bufmap, bdev, bblockno, blastuse, bvalid, bslock,
                 bufmap_locks, eviction_lock, bpanic>>

\* install_trans() calls bunpin(dbuf)
bunpin(t) ==
  /\ BcUp
  /\ bt[t].pc = "held"
  /\ bt[t].mode = "install"
  /\ bufmap_locks[KeyOf(bt[t].b)] = 0
  /\ brefcnt' = [brefcnt EXCEPT ![bt[t].b] = @ - 1]
  /\ pinned' = pinned \ {bt[t].blockno}
  /\ bt' = [bt EXCEPT ![t].pc = "brelse"]
  /\ UNCHANGED <<bufmap, bdev, bblockno, blastuse, bvalid, bslock,
                 bufmap_locks, eviction_lock, bpanic>>

\* brelse(): if(!holdingsleep(&b->lock)) panic("brelse"); releasesleep(&b->lock)
releasesleep(t) ==
  /\ BcUp
  /\ bt[t].pc = "brelse"
  /\ IF ~holdingsleep(bt[t].b, t)
     THEN bpanic' = "brelse" /\ UNCHANGED <<bslock, bt>>
     ELSE /\ bslock' = [bslock EXCEPT ![bt[t].b] = 0]
          /\ bt' = [bt EXCEPT ![t].pc = "brelse_cnt"]
          /\ UNCHANGED bpanic
  /\ UNCHANGED <<bufmap, bdev, bblockno, brefcnt, blastuse, bvalid,
                 bufmap_locks, eviction_lock, pinned>>

brelse_nostamp(t) ==
  /\ BcUp
  /\ bt[t].pc = "brelse_cnt"
  /\ bufmap_locks[KeyOf(bt[t].b)] = 0
  /\ brefcnt' = [brefcnt EXCEPT ![bt[t].b] = @ - 1]
  /\ blastuse' = blastuse
  /\ bt' = [bt EXCEPT ![t] = BIdle]
  /\ UNCHANGED <<bufmap, bdev, bblockno, bvalid, bslock, bufmap_locks,
                 eviction_lock, pinned, bpanic>>

\* brelse(): under the bucket lock, b->refcnt--; if it is 0, b->lastuse = ticks
brelse(t) ==
  /\ BcUp
  /\ bt[t].pc = "brelse_cnt"
  /\ bufmap_locks[KeyOf(bt[t].b)] = 0
  /\ brefcnt' = [brefcnt EXCEPT ![bt[t].b] = @ - 1]
  /\ blastuse' = IF brefcnt[bt[t].b] = 1
                 THEN [blastuse EXCEPT ![bt[t].b] = ticks] ELSE blastuse
  /\ bt' = [bt EXCEPT ![t] = BIdle]
  /\ UNCHANGED <<bufmap, bdev, bblockno, bvalid, bslock, bufmap_locks,
                 eviction_lock, pinned, bpanic>>

\* clockintr(): ticks++
bc_clockintr ==
  /\ BcUp
  /\ ticks < MaxTicks
  /\ ticks' = ticks + 1

NextBcache ==
  \/ \E t \in BThreads, n \in Blocknos, m \in BModes :
       bread_call(t, n, m) /\ UNCHANGED ticks /\ UNCHANGED notBc
  \/ \E t \in BThreads : bget_hit(t) /\ UNCHANGED ticks /\ UNCHANGED notBc
  \/ \E t \in BThreads : bget_recheck(t) /\ UNCHANGED ticks /\ UNCHANGED notBc
  \/ \E t \in BThreads : bget_scan_acq(t) /\ UNCHANGED ticks /\ UNCHANGED notBc
  \/ \E t \in BThreads : bget_scan(t) /\ UNCHANGED ticks /\ UNCHANGED notBc
  \/ \E t \in BThreads : bget_pick(t) /\ UNCHANGED ticks /\ UNCHANGED notBc
  \/ \E t \in BThreads : bget_move(t) /\ UNCHANGED ticks /\ UNCHANGED notBc
  \/ \E t \in BThreads : acquiresleep(t) /\ UNCHANGED ticks /\ UNCHANGED notBc
  \/ \E t \in BThreads : bread(t) /\ UNCHANGED ticks /\ UNCHANGED notBc
  \/ \E t \in BThreads : bpin(t) /\ UNCHANGED ticks /\ UNCHANGED notBc
  \/ \E t \in BThreads : bunpin(t) /\ UNCHANGED ticks /\ UNCHANGED notBc
  \/ \E t \in BThreads : releasesleep(t) /\ UNCHANGED ticks /\ UNCHANGED notBc
  \/ \E t \in BThreads : brelse(t) /\ UNCHANGED ticks /\ UNCHANGED notBc
  \/ bc_clockintr /\ UNCHANGED bcVars /\ UNCHANGED notBc

(***************************************************************************)
(* What a process owns: allocproc(), freeproc(), fork(), exit(), wait()    *)
(* of kernel/proc.c, open, close, mmap and munmap of kernel/sysfile.c and  *)
(* the reference counts of kernel/file.c.  Every system call is one step.  *)
(***************************************************************************)
Fds   == 1..NOFILE
Files == 1..NFILE
Vmas  == 1..NVMA

NoVma == [valid |-> 0, f |-> 0]

\* userinit(): the first process has a trap frame, a page table and the
\* root directory as cwd; the memory of proc[] and ftable is zeroed
InitRes ==
  /\ rstate = [p \in Procs |-> IF p = initproc THEN "USED" ELSE "UNUSED"]
  /\ rparent = [p \in Procs |-> 0]
  /\ trapframe = [p \in Procs |-> IF p = initproc THEN 1 ELSE 0]
  /\ pagetable = [p \in Procs |-> IF p = initproc THEN 1 ELSE 0]
  /\ ofile = [p \in Procs |-> [fd \in Fds |-> 0]]
  /\ cwd = [p \in Procs |-> IF p = initproc THEN 1 ELSE 0]
  /\ vmas = [p \in Procs |-> [i \in Vmas |-> NoVma]]
  /\ fref = [f \in Files |-> 0]
  /\ iref = 1
  /\ rpanic = ""

RUser(p) == rpanic = "" /\ rstate[p] = "USED"

\* the smallest element of a nonempty set of numbers
First(S) == CHOOSE x \in S : \A y \in S : x <= y

\* filedup(f) for every element of the bag fs of file pointers
DupAll(ref, p) ==
  [f \in Files |-> ref[f] + Cardinality({fd \in Fds : ofile[p][fd] = f})]

\* fileclose(f) for every open file of p
CloseAll(ref, p) ==
  [f \in Files |-> ref[f] - Cardinality({fd \in Fds : ofile[p][fd] = f})]

\* fork(): allocproc() takes the first UNUSED descriptor; kalloc() of the
\* trap frame, proc_pagetable() or uvmcopy() may fail and fork() returns -1
\* (after freeproc(np) in the last two cases); else the child gets a copy of
\* the parent's open files (filedup) and of its cwd (idup).  Neither
\* allocproc() nor fork() writes np->vmas.
fork(p, mem) ==
  /\ RUser(p)
  /\ LET free == {q \in Procs : rstate[q] = "UNUSED"} IN
     IF free = {} \/ mem = "tf"
       THEN UNCHANGED resVars
       ELSE LET np == First(free) IN
            IF mem \in {"pt", "copy"}
              THEN \* freeproc(np)
                   /\ trapframe' = [trapframe EXCEPT ![np] = 0]
                   /\ pagetable' = [pagetable EXCEPT ![np] = 0]
                   /\ rparent' = [rparent EXCEPT ![np] = 0]
                   /\ rstate' = [rstate EXCEPT ![np] = "UNUSED"]
                   /\ UNCHANGED <<ofile, cwd, vmas, fref, iref, rpanic>>
              ELSE /\ trapframe' = [trapframe EXCEPT ![np] = 1]
                   /\ pagetable' = [pagetable EXCEPT ![np] = 1]
                   /\ rparent' = [rparent EXCEPT ![np] = p]
                   /\ ofile' = [ofile EXCEPT ![np] =
                                  [fd \in Fds |-> IF ofile[p][fd] # 0
                                                    THEN ofile[p][fd]
                                                    ELSE ofile[np][fd]]]
                   /\ fref' = DupAll(fref, p)
                   /\ cwd' = [cwd EXCEPT ![np] = 1]
                   /\ iref' = iref + 1
                   /\ rstate' = [rstate EXCEPT ![np] = "USED"]
                   /\ UNCHANGED <<vmas, rpanic>>

\* sys_open(): filealloc() takes the first file with ref == 0, fdalloc() the
\* first free descriptor; if either fails the call returns -1 and the file
\* is closed again
sys_open(p) ==
  /\ RUser(p)
  /\ LET ff == {f \in Files : fref[f] = 0}
         fd == {d \in Fds : ofile[p][d] = 0} IN
     IF ff = {} \/ fd = {}
       THEN UNCHANGED <<ofile, fref>>
       ELSE /\ fref' = [fref EXCEPT ![First(ff)] = 1]
            /\ ofile' = [ofile EXCEPT ![p][First(fd)] = First(ff)]
  /\ UNCHANGED <<rstate, rparent, trapframe, pagetable, cwd, vmas, iref, rpanic>>

\* sys_close(): argfd(); p->ofile[fd] = 0; fileclose(f)
sys_close(p, fd) ==
  /\ RUser(p)
  /\ ofile[p][fd] # 0
  /\ ofile' = [ofile EXCEPT ![p][fd] = 0]
  /\ fref' = [fref EXCEPT ![ofile[p][fd]] = @ - 1]
  /\ UNCHANGED <<rstate, rparent, trapframe, pagetable, cwd, vmas, iref, rpanic>>

\* sys_mmap(): argfd(); the first vma with valid == 0 becomes valid and
\* gets f, filedup(f); panic("mmap: no free vma") if every vma is valid
sys_mmap(p, fd) ==
  /\ RUser(p)
  /\ ofile[p][fd] # 0
  /\ LET fv == {i \in Vmas : vmas[p][i].valid = 0} IN
     IF fv = {}
       THEN /\ rpanic' = "mmap: no free vma"
            /\ UNCHANGED <<vmas, fref>>
       ELSE /\ vmas' = [vmas EXCEPT ![p][First(fv)] =
                          [valid |-> 1, f |-> ofile[p][fd]]]
            /\ fref' = [fref EXCEPT ![ofile[p][fd]] = @ + 1]
            /\ UNCHANGED rpanic
  /\ UNCHANGED <<rstate, rparent, trapframe, pagetable, ofile, cwd, iref>>

\* sys_munmap() of a whole region: findvma(); v->sz reaches 0:
\* fileclose(v->f); v->valid = 0.  A munmap of a part of a region changes
\* nothing of what the process owns.
sys_munmap(p, i) ==
  /\ RUser(p)
  /\ vmas[p][i].valid = 1
  /\ vmas' = [vmas EXCEPT ![p][i].valid = 0]
  /\ IF vmas[p][i].f \in Files /\ fref[vmas[p][i].f] >= 1
       THEN fref' = [fref EXCEPT ![vmas[p][i].f] = @ - 1] /\ UNCHANGED rpanic
       ELSE rpanic' = "fileclose" /\ UNCHANGED fref
  /\ UNCHANGED <<rstate, rparent, trapframe, pagetable, ofile, cwd, iref>>

\* exit(): fileclose() of every open file, p->ofile[fd] = 0; iput(p->cwd),
\* p->cwd = 0; reparent(p); p->state = ZOMBIE.  exit() does not read
\* p->vmas.
exit(p) ==
  /\ RUser(p)
  /\ p # initproc
  /\ fref' = CloseAll(fref, p)
  /\ ofile' = [ofile EXCEPT ![p] = [fd \in Fds |-> 0]]
  /\ cwd' = [cwd EXCEPT ![p] = 0]
  /\ iref' = iref - 1
  /\ rparent' = [q \in Procs |-> IF rparent[q] = p THEN initproc ELSE rparent[q]]
  /\ rstate' = [rstate EXCEPT ![p] = "ZOMBIE"]
  /\ UNCHANGED <<trapframe, pagetable, vmas, rpanic>>

\* wait() that finds the ZOMBIE child np: freeproc(np) frees the trap frame
\* and the page table and clears pid, parent, chan, killed, xstate, state;
\* freeproc() does not read p->ofile, p->cwd or p->vmas
wait(p, np) ==
  /\ RUser(p)
  /\ rparent[np] = p
  /\ rstate[np] = "ZOMBIE"
  /\ trapframe' = [trapframe EXCEPT ![np] = 0]
  /\ pagetable' = [pagetable EXCEPT ![np] = 0]
  /\ rparent' = [rparent EXCEPT ![np] = 0]
  /\ rstate' = [rstate EXCEPT ![np] = "UNUSED"]
  /\ UNCHANGED <<ofile, cwd, vmas, fref, iref, rpanic>>

NextRes ==
  \/ \E p \in Procs :
     \/ \E mem \in {"ok", "tf", "pt", "copy"} : fork(p, mem) /\ UNCHANGED notRes
     \/ p # initproc /\ sys_open(p) /\ UNCHANGED notRes
     \/ \E fd \in Fds : sys_mmap(p, fd) /\ UNCHANGED notRes
     \/ \E i \in Vmas : sys_munmap(p, i) /\ UNCHANGED notRes
     \/ exit(p) /\ UNCHANGED notRes
     \/ \E np \in Procs : wait(p, np) /\ UNCHANGED notRes

(***************************************************************************)
(* kernel/kalloc.c: the free list and the reference counts of the frames   *)
(***************************************************************************)
Frames   == 1..NFrame
KThreads == 1..NKThread

\* kinit(): the counts are zeroed and freerange() hands every frame to
\* kfree() in ascending order, so the highest frame is the head of the list
kinit ==
  /\ freelist = [i \in 1..NFrame |-> NFrame + 1 - i]
  /\ ref_page = [f \in Frames |-> 0]
  /\ kt = [t \in KThreads |-> [pc |-> "idle", r |-> 0]]
  /\ kown = [t \in KThreads |-> [f \in Frames |-> 0]]

RECURSIVE SumOver(_, _)
SumOver(g, S) ==
  IF S = {} THEN 0
  ELSE LET x == CHOOSE y \in S : TRUE IN g[x] + SumOver(g, S \ {x})

\* the references thread t holds
Held(t) == SumOver(kown[t], Frames)

\* kalloc(), first critical section: r = kmem.freelist; if(r)
\* kmem.freelist = r->next; with an empty list kalloc() returns 0
kalloc_pop(t) ==
  /\ kt[t].pc = "idle"
  /\ Held(t) < MaxHold
  /\ IF freelist = <<>>
     THEN /\ kt' = [kt EXCEPT ![t] = [pc |-> "idle", r |-> 0]]
          /\ UNCHANGED freelist
     ELSE /\ kt' = [kt EXCEPT ![t] = [pc |-> "incr", r |-> Head(freelist)]]
          /\ freelist' = Tail(freelist)
  /\ UNCHANGED <<ref_page, kown>>

\* kalloc(), after the release: memset(r, 5, PGSIZE); incr(r), which takes
\* kmem.lock again to count the first reference; return r
kalloc_incr(t) ==
  /\ kt[t].pc = "incr"
  /\ ref_page' = [ref_page EXCEPT ![kt[t].r] = @ + 1]
  /\ kown' = [kown EXCEPT ![t][kt[t].r] = @ + 1]
  /\ kt' = [kt EXCEPT ![t].pc = "idle"]
  /\ UNCHANGED freelist

\* incr(pa) by a thread that holds a reference to pa and shares the frame
incr(t, pa) ==
  /\ kt[t].pc = "idle"
  /\ kown[t][pa] > 0
  /\ ref_page[pa] < MaxRef
  /\ ref_page' = [ref_page EXCEPT ![pa] = @ + 1]
  /\ kown' = [kown EXCEPT ![t][pa] = @ + 1]
  /\ UNCHANGED <<freelist, kt>>

kfree_always(t, pa) ==
  /\ kt[t].pc = "idle"
  /\ kown[t][pa] > 0
  /\ ref_page' = [ref_page EXCEPT ![pa] = IF @ >= 1 THEN @ - 1 ELSE @]
  /\ freelist' = <<pa>> \o freelist
  /\ kown' = [kown EXCEPT ![t][pa] = @ - 1]
  /\ UNCHANGED kt

\* kfree(pa) of a reference the thread holds, one critical section: a count
\* above 1 is decremented and the frame stays allocated; otherwise the
\* count drops to 0 and the frame becomes the head of the free list
kfree(t, pa) ==
  /\ kt[t].pc = "idle"
  /\ kown[t][pa] > 0
  /\ IF ref_page[pa] > 1
     THEN /\ ref_page' = [ref_page EXCEPT ![pa] = @ - 1]
          /\ UNCHANGED freelist
     ELSE /\ ref_page' = [ref_page EXCEPT ![pa] = IF @ = 1 THEN 0 ELSE @]
          /\ freelist' = <<pa>> \o freelist
  /\ kown' = [kown EXCEPT ![t][pa] = @ - 1]
  /\ UNCHANGED kt

NextKalloc ==
  \E t \in KThreads :
     \/ kalloc_pop(t) /\ UNCHANGED notKm
     \/ kalloc_incr(t) /\ UNCHANGED notKm
     \/ \E pa \in Frames : incr(t, pa) /\ UNCHANGED notKm
     \/ \E pa \in Frames : kfree(t, pa) /\ UNCHANGED notKm

(***************************************************************************)
(* kernel/vm.c, kernel/proc.c: the user memory of the processes.  The      *)
(* calls are computed on a record st of the allocator's state: the free    *)
(* list, the reference counts, the contents of the frames and the panic    *)
(* message.                                                                *)
(***************************************************************************)
\* the frames of the machine
VmFrames   == DOMAIN phys.ref_page
UserVas    == 0..(MaxSz - 1)
\* the two pages at the top of every user address space (memlayout.h)
TRAPFRAME  == MaxSz
TRAMPOLINE == MaxSz + 1
Vas        == 0..TRAMPOLINE
\* the page-table pages a process can have: the root, and the level-1 and
\* level-0 pages of the low addresses (l1, l0) and of the top (t1, t0)
Nodes      == {"root", "l1", "l0", "t1", "t0"}

NoPte == [pa |-> 0, flags |-> {}]
NoPt  == [node |-> [n \in Nodes |-> 0], pte |-> [va \in Vas |-> NoPte]]

\* Bind(v, F) is F(v): it names the result v of a call for the code after it
Bind(v, F(_)) == F(v)

\* kalloc() as one call: the head of the list, filled with 5, counted once
KAlloc(st) ==
  IF st.freelist = <<>>
    THEN [st |-> st, r |-> 0]
    ELSE [st |-> [st EXCEPT !.freelist = Tail(@),
                            !.pmem[Head(st.freelist)] = 5,
                            !.ref_page[Head(st.freelist)] = @ + 1],
          r |-> Head(st.freelist)]

\* kfree(pa): with other references left only the count drops; otherwise
\* the frame is filled with 1 and becomes the head of the list
KFree(st, pa) ==
  IF st.ref_page[pa] > 1
    THEN [st EXCEPT !.ref_page[pa] = @ - 1]
    ELSE [st EXCEPT !.ref_page[pa] = 0, !.pmem[pa] = 1,
                    !.freelist = <<pa>> \o @]

\* one level of walk(pagetable, va, 1): follow a valid entry, or kalloc()
\* and memset a page-table page; ok is FALSE when kalloc() returned 0
WalkLevel(st, pt, n) ==
  IF pt.node[n] # 0
    THEN [st |-> st, pt |-> pt, ok |-> TRUE]
    ELSE Bind(KAlloc(st), LAMBDA a :
           IF a.r = 0
             THEN [st |-> st, pt |-> pt, ok |-> FALSE]
             ELSE [st |-> [a.st EXCEPT !.pmem[a.r] = 0],
                   pt |-> [pt EXCEPT !.node[n] = a.r], ok |-> TRUE])

walk(st, pt, va) ==
  Bind(WalkLevel(st, pt, IF va >= TRAPFRAME THEN "t1" ELSE "l1"), LAMBDA w1 :
    IF ~w1.ok THEN w1
    ELSE WalkLevel(w1.st, w1.pt, IF va >= TRAPFRAME THEN "t0" ELSE "l0"))

\* walk(pagetable, va, 0) finds an entry
HasPte(pt, va) ==
  IF va >= TRAPFRAME THEN pt.node["t1"] # 0 /\ pt.node["t0"] # 0
                     ELSE pt.node["l1"] # 0 /\ pt.node["l0"] # 0

\* mappages() of one page
mappages(st, pt, va, pa, perm) ==
  Bind(walk(st, pt, va), LAMBDA w :
    IF ~w.ok THEN w
    ELSE IF "V" \in w.pt.pte[va].flags
      THEN [st |-> [w.st EXCEPT !.panic = "remap"], pt |-> w.pt, ok |-> TRUE]
      ELSE [st |-> w.st,
            pt |-> [w.pt EXCEPT !.pte[va] = [pa |-> pa,
                                            flags |-> perm \cup {"V"}]],
            ok |-> TRUE])

RECURSIVE uvmunmap(_, _, _, _, _)
uvmunmap(st, pt, va, npages, do_free) ==
  IF npages = 0 THEN [st |-> st, pt |-> pt]
  ELSE IF ~HasPte(pt, va)
    THEN [st |-> [st EXCEPT !.panic = "uvmunmap: walk"], pt |-> pt]
  ELSE IF "V" \notin pt.pte[va].flags
    THEN [st |-> [st EXCEPT !.panic = "uvmunmap: not mapped"], pt |-> pt]
  ELSE IF pt.pte[va].flags = {"V"}
    THEN [st |-> [st EXCEPT !.panic = "uvmunmap: not a leaf"], pt |-> pt]
  ELSE uvmunmap(IF do_free THEN KFree(st, pt.pte[va].pa) ELSE st,
                [pt EXCEPT !.pte[va] = NoPte], va + 1, npages - 1, do_free)

RECURSIVE FreeNodes(_, _, _)
FreeNodes(st, pt, ns) ==
  IF ns = <<>> THEN [st |-> st, pt |-> pt]
  ELSE IF pt.node[Head(ns)] = 0 THEN FreeNodes(st, pt, Tail(ns))
  ELSE FreeNodes(KFree(st, pt.node[Head(ns)]),
                 [pt EXCEPT !.node[Head(ns)] = 0], Tail(ns))

\* freewalk(): the page-table pages are freed children first, entry 0 of
\* the root before entry 255; a leaf that is still valid is a panic
freewalk(st, pt) ==
  IF \E va \in Vas : "V" \in pt.pte[va].flags
    THEN [st |-> [st EXCEPT !.panic = "freewalk: leaf"], pt |-> pt]
    ELSE FreeNodes(st, pt, <<"l0", "l1", "t0", "t1", "root">>)

uvmfree(st, pt, sz) ==
  IF sz > 0
    THEN Bind(uvmunmap(st, pt, 0, sz, TRUE), LAMBDA u : freewalk(u.st, u.pt))
    ELSE freewalk(st, pt)

\* proc_pagetable(): uvmcreate(), then the trampoline (kernel text, pa 0
\* here) and the trap frame are mapped
proc_pagetable(st, tf) ==
  Bind(KAlloc(st), LAMBDA a :
    IF a.r = 0 THEN [st |-> st, pt |-> NoPt, ok |-> FALSE]
    ELSE
      Bind(mappages([a.st EXCEPT !.pmem[a.r] = 0],
                    [NoPt EXCEPT !.node["root"] = a.r],
                    TRAMPOLINE, 0, {"R", "X"}), LAMBDA m1 :
        IF ~m1.ok
          THEN [st |-> uvmfree(m1.st, m1.pt, 0).st, pt |-> NoPt, ok |-> FALSE]
          ELSE
            Bind(mappages(m1.st, m1.pt, TRAPFRAME, tf, {"R", "W"}), LAMBDA m2 :
              IF ~m2.ok
                THEN Bind(uvmunmap(m2.st, m2.pt, TRAMPOLINE, 1, FALSE),
                       LAMBDA u : [st |-> uvmfree(u.st, u.pt, 0).st,
                                   pt |-> NoPt, ok |-> FALSE])
                ELSE m2)))

proc_freepagetable(st, pt, sz) ==
  Bind(uvmunmap(st, pt, TRAMPOLINE, 1, FALSE), LAMBDA u1 :
    Bind(uvmunmap(u1.st, u1.pt, TRAPFRAME, 1, FALSE), LAMBDA u2 :
      uvmfree(u2.st, u2.pt, sz)))

freeproc_mem_keeptf(st, tf, pt, sz) ==
  IF pt.node["root"] # 0 THEN proc_freepagetable(st, pt, sz).st ELSE st

\* the memory freeproc() frees: the trap frame and the page table with the
\* sz pages below it
freeproc_mem(st, tf, pt, sz) ==
  Bind(IF tf # 0 THEN KFree(st, tf) ELSE st, LAMBDA st1 :
    IF pt.node["root"] # 0 THEN proc_freepagetable(st1, pt, sz).st ELSE st1)

\* the memory allocproc() allocates: res is "tf" when kalloc() of the trap
\* frame fails, "pt" when proc_pagetable() fails and freeproc() runs
allocproc_mem(st) ==
  Bind(KAlloc(st), LAMBDA a :
    IF a.r = 0 THEN [st |-> st, tf |-> 0, pt |-> NoPt, res |-> "tf"]
    ELSE Bind(proc_pagetable(a.st, a.r), LAMBDA pp :
           IF ~pp.ok
             THEN [st |-> freeproc_mem(pp.st, a.r, NoPt, 0), tf |-> 0,
                   pt |-> NoPt, res |-> "pt"]
             ELSE [st |-> pp.st, tf |-> a.r, pt |-> pp.pt, res |-> "ok"]))

memmove_none(st, dst, src) == st

\* memmove(dst, src, PGSIZE) between two frames
memmove(st, dst, src) == [st EXCEPT !.pmem[dst] = st.pmem[src]]

\* uvmcopy(old, new, sz) from page i on: every page of the parent gets a
\* new frame with the parent's contents (memmove), mapped with the parent's
\* flags; on failure the pages copied so far are unmapped and freed
RECURSIVE uvmcopy(_, _, _, _, _)
uvmcopy(st, old, new, i, sz) ==
  IF i >= sz THEN [st |-> st, pt |-> new, ok |-> TRUE]
  ELSE IF ~HasPte(old, i)
    THEN [st |-> [st EXCEPT !.panic = "uvmcopy: pte should exist"],
          pt |-> new, ok |-> TRUE]
  ELSE IF "V" \notin old.pte[i].flags
    THEN [st |-> [st EXCEPT !.panic = "uvmcopy: page not present"],
          pt |-> new, ok |-> TRUE]
  ELSE
    Bind(KAlloc(st), LAMBDA a :
      IF a.r = 0
        THEN Bind(uvmunmap(st, new, 0, i, TRUE), LAMBDA u :
               [st |-> u.st, pt |-> u.pt, ok |-> FALSE])
        ELSE
          Bind(mappages(memmove(a.st, a.r, old.pte[i].pa), new, i, a.r,
                        old.pte[i].flags \ {"V"}), LAMBDA m :
            IF ~m.ok
              THEN Bind(uvmunmap(KFree(m.st, a.r), m.pt, 0, i, TRUE),
                     LAMBDA u : [st |-> u.st, pt |-> u.pt, ok |-> FALSE])
              ELSE uvmcopy(m.st, old, m.pt, i + 1, sz)))

\* the memory side of fork() by p: allocproc(), uvmcopy(), np->sz = p->sz,
\* *(np->trapframe) = *(p->trapframe); res names the step that failed
fork_mem(p) ==
  Bind(allocproc_mem(phys), LAMBDA ap :
    IF ap.res # "ok" THEN [st |-> ap.st, tf |-> 0, pt |-> NoPt, sz |-> 0,
                           res |-> ap.res]
    ELSE Bind(uvmcopy(ap.st, upt[p], ap.pt, 0, usz[p]), LAMBDA c :
           IF ~c.ok
             THEN [st |-> freeproc_mem(c.st, ap.tf, c.pt, 0), tf |-> 0,
                   pt |-> NoPt, sz |-> 0, res |-> "copy"]
             ELSE [st |-> memmove(c.st, ap.tf, utf[p]),
                   tf |-> ap.tf, pt |-> c.pt, sz |-> usz[p], res |-> "ok"]))

\* sys_fork(): fork() on the descriptors and on the memory; allocproc()
\* calls allocpid() once it has a descriptor; the result is the child's pid,
\* or -1 when there is no UNUSED descriptor or a kalloc() failed
sys_fork_vm(p) ==
  /\ phys.panic = ""
  /\ RUser(p)
  /\ vnextpid <= MaxVmPid
  /\ IF \A q \in Procs : rstate[q] # "UNUSED"
       THEN /\ fork(p, "ok")
            /\ vret' = [p |-> p, call |-> "fork", np |-> 0, val |-> -1]
            /\ UNCHANGED <<phys, usz, utf, upt, vnextpid>>
       ELSE \E np \in {First({q \in Procs : rstate[q] = "UNUSED"})} :
            \E r \in {fork_mem(p)} :
              /\ fork(p, r.res)
              /\ vnextpid' = vnextpid + 1
              /\ phys' = r.st
              /\ usz' = [usz EXCEPT ![np] = r.sz]
              /\ utf' = [utf EXCEPT ![np] = r.tf]
              /\ upt' = [upt EXCEPT ![np] = r.pt]
              /\ vret' = [p |-> p, call |-> "fork", np |-> np,
                          val |-> IF r.res = "ok" THEN vnextpid ELSE -1]

\* sys_sbrk(PGSIZE): growproc(): uvmalloc() of one page, zeroed and mapped
\* W|X|R|U; 0 (and -1 from sbrk) when kalloc() or mappages() fails
sys_sbrk_grow(p) ==
  /\ phys.panic = ""
  /\ RUser(p)
  /\ usz[p] < MaxSz
  /\ \E a \in {KAlloc(phys)} :
     IF a.r = 0
       THEN /\ vret' = [p |-> p, call |-> "sbrk", np |-> 0, val |-> -1]
            /\ UNCHANGED <<phys, usz, upt>>
       ELSE \E m \in {mappages([a.st EXCEPT !.pmem[a.r] = 0], upt[p], usz[p],
                               a.r, {"W", "X", "R", "U"})} :
            IF ~m.ok
              THEN /\ phys' = KFree(m.st, a.r)
                   /\ upt' = [upt EXCEPT ![p] = m.pt]
                   /\ vret' = [p |-> p, call |-> "sbrk", np |-> 0, val |-> -1]
                   /\ UNCHANGED usz
              ELSE /\ phys' = m.st
                   /\ upt' = [upt EXCEPT ![p] = m.pt]
                   /\ usz' = [usz EXCEPT ![p] = @ + 1]
                   /\ vret' = [p |-> p, call |-> "sbrk", np |-> 0, val |-> 0]
  /\ UNCHANGED <<utf, vnextpid, resVars>>

\* sys_sbrk(-PGSIZE): growproc(): uvmdealloc() unmaps and frees the top page
sys_sbrk_shrink(p) ==
  /\ phys.panic = ""
  /\ RUser(p)
  /\ usz[p] > 0
  /\ \E u \in {uvmunmap(phys, upt[p], usz[p] - 1, 1, TRUE)} :
     /\ phys' = u.st
     /\ upt' = [upt EXCEPT ![p] = u.pt]
  /\ usz' = [usz EXCEPT ![p] = @ - 1]
  /\ vret' = [p |-> p, call |-> "sbrk", np |-> 0, val |-> 0]
  /\ UNCHANGED <<utf, vnextpid, resVars>>

\* what process p reads at page va
Load(p, va) == phys.pmem[upt[p].pte[va].pa]

\* a store instruction of process p in user mode to a page that is valid,
\* user-accessible and writable: the byte goes to the frame the entry
\* names
store(p, va, v) ==
  /\ phys.panic = ""
  /\ RUser(p)
  /\ va < usz[p]
  /\ {"V", "U", "W"} \subseteq upt[p].pte[va].flags
  /\ phys' = [phys EXCEPT !.pmem[upt[p].pte[va].pa] = v]
  /\ UNCHANGED <<usz, utf, upt, vret, vnextpid, resVars>>

sys_exit_vm(p) ==
  /\ phys.panic = ""
  /\ exit(p)
  /\ vret' = [p |-> p, call |-> "exit", np |-> 0, val |-> 0]
  /\ UNCHANGED <<phys, usz, utf, upt, vnextpid>>

\* wait() that finds the ZOMBIE child np: freeproc(np) frees its memory
sys_wait_vm(p, np) ==
  /\ phys.panic = ""
  /\ wait(p, np)
  /\ phys' = freeproc_mem(phys, utf[np], upt[np], usz[np])
  /\ usz' = [usz EXCEPT ![np] = 0]
  /\ utf' = [utf EXCEPT ![np] = 0]
  /\ upt' = [upt EXCEPT ![np] = NoPt]
  /\ vret' = [p |-> p, call |-> "wait", np |-> np, val |-> 0]
  /\ UNCHANGED vnextpid

\* kinit() on a machine with n frames, then userinit(): allocproc(), and
\* uvminit() puts initcode (first byte 0x17) in one page mapped at 0
userinit(n) ==
  Bind(allocproc_mem([freelist |-> [i \in 1..n |-> n + 1 - i],
                      ref_page |-> [f \in 1..n |-> 0],
                      pmem |-> [f \in 1..n |-> 1],
                      panic |-> ""]), LAMBDA ap :
    Bind(KAlloc(ap.st), LAMBDA a :
      Bind(mappages(a.st, ap.pt, 0, a.r, {"W", "R", "X", "U"}), LAMBDA m :
        [st |-> [m.st EXCEPT !.pmem[a.r] = 23], tf |-> ap.tf, pt |-> m.pt])))

InitVm(n) ==
  \E u \in {userinit(n)} :
    /\ phys = u.st
    /\ utf = [p \in Procs |-> IF p = initproc THEN u.tf ELSE 0]
    /\ upt = [p \in Procs |-> IF p = initproc THEN u.pt ELSE NoPt]
    /\ usz = [p \in Procs |-> IF p = initproc THEN 1 ELSE 0]
    /\ vret = [p |-> 0, call |-> "none", np |-> 0, val |-> 0]
    /\ vnextpid = 2

\* init forks and waits (its program, user/init.c, does nothing else); the
\* other processes also grow, shrink, store, open files and exit
NextVm ==
  \E p \in Procs :
     \/ sys_fork_vm(p) /\ UNCHANGED notVm
     \/ p # initproc /\ sys_sbrk_grow(p) /\ UNCHANGED notVm
     \/ p # initproc /\ sys_sbrk_shrink(p) /\ UNCHANGED notVm
     \/ \E va \in UserVas, v \in 0..MaxVal :
          p # initproc /\ store(p, va, v) /\ UNCHANGED notVm
     \/ sys_exit_vm(p) /\ UNCHANGED notVm
     \/ \E np \in Procs : sys_wait_vm(p, np) /\ UNCHANGED notVm
     \/ p # initproc /\ sys_open(p) /\ UNCHANGED notRes

(***************************************************************************)
(* kernel/fs.c, kernel/sysfile.c: the inode cache and the system calls     *)
(* that name files.  A step is one critical section of icache.lock or one  *)
(* stretch of code that starts by taking an inode's sleep-lock.  The       *)
(* transaction around a call (begin_op, end_op) is the log's business and  *)
(* is left to the log section; the disk below is what bread() returns.     *)
(* The file system is one directory deep: the root directory holds files.  *)
(***************************************************************************)
IEntries == 1..NINODE
Inums == 1..NInum
IThreads == 1..NIThread
DataBlocks == 1..NDataBlock
Names == {"a", "b"}

\* the paths given to the calls: a name in the working directory, or a
\* name below another name
IPaths == {<<n>> : n \in Names} \cup {<<"a", "b">>}

ROOTINO == 1
T_DIR == 1
T_FILE == 2

\* p->cwd of every process: the entry userinit's namei("/") was given,
\* the first of the cache
ICwd == 1

IIdle ==
  [pc |-> "idle", op |-> "none", path |-> <<>>, nip |-> FALSE, cur |-> 0,
   kn |-> "idle", x |-> 0, kp |-> "idle", ip |-> 0, dp |-> 0, name |-> "",
   new |-> <<>>, ph |-> 0]

NoDinode == [type |-> 0, nlink |-> 0, addrs |-> {}]

\* iinit, fsinit on a fresh file system, userinit's cwd = namei("/") and
\* the idup(p->cwd) of every fork
InitInode ==
  /\ icache = [e \in IEntries |->
                 IF e = ICwd
                 THEN [dev |-> ROOTDEV, inum |-> ROOTINO, ref |-> NIThread,
                       valid |-> FALSE, type |-> 0, nlink |-> 0,
                       addrs |-> {}]
                 ELSE [dev |-> 0, inum |-> 0, ref |-> 0, valid |-> FALSE,
                       type |-> 0, nlink |-> 0, addrs |-> {}]]
  /\ ilk = [e \in IEntries |-> 0]
  /\ dinode = [i \in Inums |->
                 IF i = ROOTINO
                 THEN [type |-> T_DIR, nlink |-> 1, addrs |-> {}]
                 ELSE NoDinode]
  /\ dirent = [n \in Names |-> 0]
  /\ bitmap = {}
  /\ ith = [t \in IThreads |-> IIdle]
  /\ ifile = [t \in IThreads |-> 0]
  /\ ihold = [t \in IThreads |-> [e \in IEntries |->
                                    IF e = ICwd THEN 1 ELSE 0]]
  /\ ipanic = ""

\* one step of thread t: the new values of everything
IPut(t, ic, lk, dn, de, bm, th, fl, hd) ==
  /\ icache' = ic
  /\ ilk' = lk
  /\ dinode' = dn
  /\ dirent' = de
  /\ bitmap' = bm
  /\ ith' = [ith EXCEPT ![t] = th]
  /\ ifile' = fl
  /\ ihold' = hd
  /\ ipanic' = ""

\* panic(msg): the kernel stops
IPanic(msg) ==
  /\ ipanic' = msg
  /\ UNCHANGED <<icache, ilk, dinode, dirent, bitmap, ith, ifile, ihold>>

IInc(hd, t, e) == [hd EXCEPT ![t][e] = @ + 1]
IDec(hd, t, e) == [hd EXCEPT ![t][e] = @ - 1]

\* the entries iget's scan tests: those in use for (dev, inum), those unused
IHit(ic, dev, inum) ==
  {e \in IEntries : ic[e].ref > 0 /\ ic[e].dev = dev /\ ic[e].inum = inum}
IEmpty(ic) == {e \in IEntries : ic[e].ref = 0}

iget_nohit(ic, dev, inum) ==
  IF IEmpty(ic) = {} THEN [e |-> 0, ic |-> ic]
  ELSE [e |-> First(IEmpty(ic)),
        ic |-> [ic EXCEPT ![First(IEmpty(ic))] =
                  [@ EXCEPT !.dev = dev, !.inum = inum, !.ref = 1,
                            !.valid = FALSE]]]
\* iget(dev, inum): the entry in use for (dev, inum) with one more
\* reference, else the first unused entry recycled; e = 0 is the panic
iget(ic, dev, inum) ==
  IF IHit(ic, dev, inum) # {}
  THEN [e |-> First(IHit(ic, dev, inum)),
        ic |-> [ic EXCEPT ![First(IHit(ic, dev, inum))].ref = @ + 1]]
  ELSE IF IEmpty(ic) = {} THEN [e |-> 0, ic |-> ic]
  ELSE [e |-> First(IEmpty(ic)),
        ic |-> [ic EXCEPT ![First(IEmpty(ic))] =
                  [@ EXCEPT !.dev = dev, !.inum = inum, !.ref = 1,
                            !.valid = FALSE]]]

idup(ic, e) == [ic EXCEPT ![e].ref = @ + 1]

\* ilock's panics, and the copy it reads from disk when the entry is not
\* valid
ilock_panic(ic, dn, e) ==
  IF ic[e].ref < 1 THEN "ilock"
  ELSE IF ~ic[e].valid /\ dn[ic[e].inum].type = 0 THEN "ilock: no type"
  ELSE ""
ilock(ic, dn, e) ==
  IF ic[e].valid THEN ic
  ELSE [ic EXCEPT ![e] = [@ EXCEPT !.type = dn[ic[e].inum].type,
                                   !.nlink = dn[ic[e].inum].nlink,
                                   !.addrs = dn[ic[e].inum].addrs,
                                   !.valid = TRUE]]

iupdate(dn, ic, e) ==
  [dn EXCEPT ![ic[e].inum] = [type |-> ic[e].type, nlink |-> ic[e].nlink,
                              addrs |-> ic[e].addrs]]

\* itrunc(ip): bfree every block of the file, size 0
itrunc(bm, ic, e) ==
  [bitmap |-> bm \ ic[e].addrs, ic |-> [ic EXCEPT ![e].addrs = {}]]

\* ialloc(dev, type): the first free on-disk inode, typed; inum = 0 is the
\* panic
ialloc(dn, type) ==
  IF {i \in Inums : dn[i].type = 0} = {} THEN [inum |-> 0, dn |-> dn]
  ELSE [inum |-> First({i \in Inums : dn[i].type = 0}),
        dn |-> [dn EXCEPT ![First({i \in Inums : dn[i].type = 0})] =
                  [type |-> type, nlink |-> 0, addrs |-> {}]]]

\* namex's first line, for a path that does not start with '/'
namex_idup(t) ==
  /\ ipanic = ""
  /\ ith[t].pc = "nx_start"
  /\ IPut(t, idup(icache, ICwd), ilk, dinode, dirent, bitmap,
          [ith[t] EXCEPT !.pc = "nx_loop", !.cur = ICwd], ifile,
          IInc(ihold, t, ICwd))

\* one turn of namex's loop, from ilock(ip) to the iunlock before the
\* iput; the result of namex is th.cur, 0 for none
namex_step(t) ==
  /\ ipanic = ""
  /\ ith[t].pc = "nx_loop"
  /\ ilk[ith[t].cur] = 0
  /\ \E th \in {ith[t]} :
     \E ic \in {ilock(icache, dinode, th.cur)} :
       IF ilock_panic(icache, dinode, th.cur) # ""
       THEN IPanic(ilock_panic(icache, dinode, th.cur))
       ELSE IF ic[th.cur].type # T_DIR
       THEN IPut(t, ic, ilk, dinode, dirent, bitmap,
                 [th EXCEPT !.pc = "iput", !.x = th.cur, !.kp = th.kn,
                            !.cur = 0, !.path = <<>>],
                 ifile, ihold)
       ELSE IF th.nip /\ Len(th.path) = 1
       THEN IPut(t, ic, ilk, dinode, dirent, bitmap,
                 [th EXCEPT !.pc = th.kn, !.name = Head(th.path),
                            !.path = <<>>],
                 ifile, ihold)
       ELSE IF dirent[Head(th.path)] = 0
       THEN IPut(t, ic, ilk, dinode, dirent, bitmap,
                 [th EXCEPT !.pc = "iput", !.x = th.cur, !.kp = th.kn,
                            !.cur = 0, !.path = <<>>],
                 ifile, ihold)
       ELSE \E r \in {iget(ic, ic[th.cur].dev, dirent[Head(th.path)])} :
              IF r.e = 0 THEN IPanic("iget: no inodes")
              ELSE IPut(t, r.ic, ilk, dinode, dirent, bitmap,
                        [th EXCEPT !.pc = "iput", !.x = th.cur,
                                   !.kp = IF Tail(th.path) = <<>>
                                          THEN th.kn ELSE "nx_loop",
                                   !.cur = r.e, !.path = Tail(th.path)],
                        ifile, IInc(ihold, t, r.e))

\* iput(e), its first critical section: the last reference to a valid
\* inode without links takes the sleep-lock and goes on to free it, any
\* other reference is dropped; then the caller goes on at k
IputBegin(t, e, k, th, fl) ==
  IF icache[e].ref = 1 /\ icache[e].valid /\ icache[e].nlink = 0
  THEN /\ ilk[e] = 0
       /\ IPut(t, icache, [ilk EXCEPT ![e] = t], dinode, dirent, bitmap,
               [th EXCEPT !.pc = "iput_trunc", !.x = e, !.kp = k], fl, ihold)
  ELSE IPut(t, [icache EXCEPT ![e].ref = @ - 1], ilk, dinode, dirent, bitmap,
            IF k = "idle" THEN IIdle
            ELSE [th EXCEPT !.pc = k, !.x = 0, !.kp = "idle"],
            fl, IDec(ihold, t, e))

iput_begin(t) ==
  /\ ipanic = ""
  /\ ith[t].pc = "iput"
  /\ IputBegin(t, ith[t].x, ith[t].kp, ith[t], ifile)

\* iput, outside icache.lock: itrunc(ip); ip->type = 0; iupdate(ip)
iput_trunc(t) ==
  /\ ipanic = ""
  /\ ith[t].pc = "iput_trunc"
  /\ \E e \in {ith[t].x} :
       IF ~(icache[e].addrs \subseteq bitmap)
       THEN IPanic("freeing free block")
       ELSE \E r \in {itrunc(bitmap, icache, e)} :
            \E ic \in {[r.ic EXCEPT ![e].type = 0]} :
              IPut(t, ic, ilk, iupdate(dinode, ic, e), dirent, r.bitmap,
                   [ith[t] EXCEPT !.pc = "iput_inval"], ifile, ihold)

\* iput: ip->valid = 0; releasesleep(&ip->lock)
iput_inval(t) ==
  /\ ipanic = ""
  /\ ith[t].pc = "iput_inval"
  /\ IPut(t, [icache EXCEPT ![ith[t].x].valid = FALSE],
          [ilk EXCEPT ![ith[t].x] = 0], dinode, dirent, bitmap,
          [ith[t] EXCEPT !.pc = "iput_dec"], ifile, ihold)

\* iput, its second critical section: ip->ref--
iput_dec(t) ==
  /\ ipanic = ""
  /\ ith[t].pc = "iput_dec"
  /\ IPut(t, [icache EXCEPT ![ith[t].x].ref = @ - 1], ilk, dinode, dirent,
          bitmap,
          IF ith[t].kp = "idle" THEN IIdle
          ELSE [ith[t] EXCEPT !.pc = ith[t].kp, !.x = 0, !.kp = "idle"],
          ifile, IDec(ihold, t, ith[t].x))

\* sys_link(old, new) up to namei(old)'s idup
sys_link(t, old, new) ==
  /\ ipanic = ""
  /\ ith[t].pc = "idle"
  /\ IPut(t, idup(icache, ICwd), ilk, dinode, dirent, bitmap,
          [IIdle EXCEPT !.pc = "nx_loop", !.op = "link", !.path = old,
                        !.cur = ICwd, !.kn = "link_ip", !.new = new],
          ifile, IInc(ihold, t, ICwd))

\* sys_link after namei(old): ilock(ip); ip->nlink++; iupdate(ip);
\* iunlock(ip), on to nameiparent(new)
link_ip(t) ==
  /\ ipanic = ""
  /\ ith[t].pc = "link_ip"
  /\ \E th \in {ith[t]} :
       IF th.cur = 0
       THEN IPut(t, icache, ilk, dinode, dirent, bitmap, IIdle, ifile, ihold)
       ELSE /\ ilk[th.cur] = 0
            /\ \E ic \in {ilock(icache, dinode, th.cur)} :
                 IF ilock_panic(icache, dinode, th.cur) # ""
                 THEN IPanic(ilock_panic(icache, dinode, th.cur))
                 ELSE IF ic[th.cur].type = T_DIR
                 THEN IPut(t, ic, ilk, dinode, dirent, bitmap,
                           [th EXCEPT !.pc = "iput", !.x = th.cur,
                                      !.kp = "idle", !.cur = 0],
                           ifile, ihold)
                 ELSE \E ic2 \in {[ic EXCEPT ![th.cur].nlink = @ + 1]} :
                        IPut(t, ic2, ilk, iupdate(dinode, ic2, th.cur),
                             dirent, bitmap,
                             [th EXCEPT !.pc = "nx_start", !.ip = th.cur,
                                        !.cur = 0, !.path = th.new,
                                        !.nip = TRUE, !.kn = "link_dp",
                                        !.ph = 1],
                             ifile, ihold)

\* sys_link's label bad: ilock(ip); ip->nlink--; iupdate(ip); iunlock(ip),
\* on to iput(ip) and return -1
LinkBad(t, th) ==
  /\ ilk[th.ip] = 0
  /\ \E ic \in {ilock(icache, dinode, th.ip)} :
       IF ilock_panic(icache, dinode, th.ip) # ""
       THEN IPanic(ilock_panic(icache, dinode, th.ip))
       ELSE \E ic2 \in {[ic EXCEPT ![th.ip].nlink = @ - 1]} :
              IPut(t, ic2, ilk, iupdate(dinode, ic2, th.ip), dirent, bitmap,
                   [th EXCEPT !.pc = "iput", !.x = th.ip, !.kp = "idle",
                              !.cur = 0, !.ph = 0],
                   ifile, ihold)

\* sys_link after nameiparent(new): no parent goes to bad; else ilock(dp),
\* the device test and dirlink(dp, name, ip->inum) up to its dirlookup
link_dp(t) ==
  /\ ipanic = ""
  /\ ith[t].pc = "link_dp"
  /\ \E th \in {ith[t]} :
       IF th.cur = 0 THEN LinkBad(t, th)
       ELSE /\ ilk[th.cur] = 0
            /\ \E ic \in {ilock(icache, dinode, th.cur)} :
                 IF ilock_panic(icache, dinode, th.cur) # ""
                 THEN IPanic(ilock_panic(icache, dinode, th.cur))
                 ELSE IF ic[th.cur].dev # ic[th.ip].dev
                 THEN IPut(t, ic, ilk, dinode, dirent, bitmap,
                           [th EXCEPT !.pc = "iput", !.x = th.cur,
                                      !.kp = "link_bad", !.cur = 0],
                           ifile, ihold)
                 ELSE IF dirent[th.name] # 0
                 THEN \E r \in {iget(ic, ic[th.cur].dev, dirent[th.name])} :
                        IF r.e = 0 THEN IPanic("iget: no inodes")
                        ELSE IPut(t, r.ic, [ilk EXCEPT ![th.cur] = t],
                                  dinode, dirent, bitmap,
                                  [th EXCEPT !.pc = "dl_put", !.x = r.e,
                                             !.dp = th.cur, !.cur = 0],
                                  ifile, IInc(ihold, t, r.e))
                 ELSE IPut(t, ic, ilk, dinode,
                           [dirent EXCEPT ![th.name] = ic[th.ip].inum],
                           bitmap,
                           [th EXCEPT !.pc = "iput", !.x = th.cur,
                                      !.kp = "link_ok", !.cur = 0,
                                      !.ph = 0],
                           ifile, ihold)

\* dirlink found the name: iput(ip) of the inode it names, return -1
link_dlput(t) ==
  /\ ipanic = ""
  /\ ith[t].pc = "dl_put"
  /\ IputBegin(t, ith[t].x, "link_dpf", ith[t], ifile)

\* sys_link: dirlink failed: iunlock(dp), on to iput(dp) and bad
link_dpf(t) ==
  /\ ipanic = ""
  /\ ith[t].pc = "link_dpf"
  /\ IPut(t, icache, [ilk EXCEPT ![ith[t].dp] = 0], dinode, dirent, bitmap,
          [ith[t] EXCEPT !.pc = "iput", !.x = ith[t].dp, !.kp = "link_bad",
                         !.dp = 0],
          ifile, ihold)

link_bad(t) ==
  /\ ipanic = ""
  /\ ith[t].pc = "link_bad"
  /\ LinkBad(t, ith[t])

\* sys_link: the entry is written and dp is put: iput(ip), return 0
link_ok(t) ==
  /\ ipanic = ""
  /\ ith[t].pc = "link_ok"
  /\ IputBegin(t, ith[t].ip, "idle", ith[t], ifile)

\* sys_unlink(path) up to nameiparent's idup
sys_unlink(t, path) ==
  /\ ipanic = ""
  /\ ith[t].pc = "idle"
  /\ IPut(t, idup(icache, ICwd), ilk, dinode, dirent, bitmap,
          [IIdle EXCEPT !.pc = "nx_loop", !.op = "unlink", !.path = path,
                        !.nip = TRUE, !.cur = ICwd, !.kn = "ul_dp"],
          ifile, IInc(ihold, t, ICwd))

\* sys_unlink after nameiparent: ilock(dp); dirlookup(dp, name)
ul_dp(t) ==
  /\ ipanic = ""
  /\ ith[t].pc = "ul_dp"
  /\ \E th \in {ith[t]} :
       IF th.cur = 0
       THEN IPut(t, icache, ilk, dinode, dirent, bitmap, IIdle, ifile, ihold)
       ELSE /\ ilk[th.cur] = 0
            /\ \E ic \in {ilock(icache, dinode, th.cur)} :
                 IF ilock_panic(icache, dinode, th.cur) # ""
                 THEN IPanic(ilock_panic(icache, dinode, th.cur))
                 ELSE IF dirent[th.name] = 0
                 THEN IPut(t, ic, ilk, dinode, dirent, bitmap,
                           [th EXCEPT !.pc = "iput", !.x = th.cur,
                                      !.kp = "idle", !.cur = 0],
                           ifile, ihold)
                 ELSE \E r \in {iget(ic, ic[th.cur].dev, dirent[th.name])} :
                        IF r.e = 0 THEN IPanic("iget: no inodes")
                        ELSE IPut(t, r.ic, [ilk EXCEPT ![th.cur] = t],
                                  dinode, dirent, bitmap,
                                  [th EXCEPT !.pc = "ul_ip", !.dp = th.cur,
                                             !.ip = r.e, !.cur = 0],
                                  ifile, IInc(ihold, t, r.e))

\* sys_unlink: ilock(ip); the entry is zeroed; iunlock(dp), on to iput(dp).
\* Only files have names here, so the directory tests are not taken.
ul_ip(t) ==
  /\ ipanic = ""
  /\ ith[t].pc = "ul_ip"
  /\ ilk[ith[t].ip] = 0
  /\ \E th \in {ith[t]} :
     \E ic \in {ilock(icache, dinode, th.ip)} :
       IF ilock_panic(icache, dinode, th.ip) # ""
       THEN IPanic(ilock_panic(icache, dinode, th.ip))
       ELSE IF ic[th.ip].nlink < 1 THEN IPanic("unlink: nlink < 1")
       ELSE IPut(t, ic, [ilk EXCEPT ![th.dp] = 0, ![th.ip] = t], dinode,
                 [dirent EXCEPT ![th.name] = 0], bitmap,
                 [th EXCEPT !.pc = "iput", !.x = th.dp, !.kp = "ul_dec",
                            !.dp = 0, !.ph = 2],
                 ifile, ihold)

\* sys_unlink: ip->nlink--; iupdate(ip); iunlock(ip), on to iput(ip) and
\* return 0
ul_dec(t) ==
  /\ ipanic = ""
  /\ ith[t].pc = "ul_dec"
  /\ \E th \in {ith[t]} :
     \E ic \in {[icache EXCEPT ![th.ip].nlink = @ - 1]} :
       IPut(t, ic, [ilk EXCEPT ![th.ip] = 0], iupdate(dinode, ic, th.ip),
            dirent, bitmap,
            [th EXCEPT !.pc = "iput", !.x = th.ip, !.kp = "idle", !.ph = 0],
            ifile, ihold)

\* sys_open(path, omode) of a process with a free descriptor, up to the
\* idup of namei (no O_CREATE) or of create's nameiparent (O_CREATE)
sys_open_path(t, path, creat) ==
  /\ ipanic = ""
  /\ ith[t].pc = "idle"
  /\ ifile[t] = 0
  /\ IPut(t, idup(icache, ICwd), ilk, dinode, dirent, bitmap,
          [IIdle EXCEPT !.pc = "nx_loop", !.op = "open", !.path = path,
                        !.nip = creat, !.cur = ICwd,
                        !.kn = IF creat THEN "cr_dp" ELSE "op_ip"],
          ifile, IInc(ihold, t, ICwd))

\* sys_open with the inode found: ilock(ip); f->ip = ip; iunlock(ip);
\* the file keeps the reference.  create() of a name that exists ends the
\* same way.
op_ip(t) ==
  /\ ipanic = ""
  /\ ith[t].pc = "op_ip"
  /\ \E th \in {ith[t]} :
       IF th.cur = 0
       THEN IPut(t, icache, ilk, dinode, dirent, bitmap, IIdle, ifile, ihold)
       ELSE /\ ilk[th.cur] = 0
            /\ IF ilock_panic(icache, dinode, th.cur) # ""
               THEN IPanic(ilock_panic(icache, dinode, th.cur))
               ELSE IPut(t, ilock(icache, dinode, th.cur), ilk, dinode,
                         dirent, bitmap, IIdle,
                         [ifile EXCEPT ![t] = th.cur], ihold)

\* create after nameiparent: ilock(dp); the name exists: iunlock(dp), on
\* to iput(dp); else ialloc(dp->dev, T_FILE) with its iget
cr_dp(t) ==
  /\ ipanic = ""
  /\ ith[t].pc = "cr_dp"
  /\ \E th \in {ith[t]} :
       IF th.cur = 0
       THEN IPut(t, icache, ilk, dinode, dirent, bitmap, IIdle, ifile, ihold)
       ELSE /\ ilk[th.cur] = 0
            /\ \E ic \in {ilock(icache, dinode, th.cur)} :
                 IF ilock_panic(icache, dinode, th.cur) # ""
                 THEN IPanic(ilock_panic(icache, dinode, th.cur))
                 ELSE IF dirent[th.name] # 0
                 THEN \E r \in {iget(ic, ic[th.cur].dev, dirent[th.name])} :
                        IF r.e = 0 THEN IPanic("iget: no inodes")
                        ELSE IPut(t, r.ic, ilk, dinode, dirent, bitmap,
                                  [th EXCEPT !.pc = "iput", !.x = th.cur,
                                             !.kp = "op_ip", !.cur = r.e],
                                  ifile, IInc(ihold, t, r.e))
                 ELSE \E a \in {ialloc(dinode, T_FILE)} :
                        IF a.inum = 0 THEN IPanic("ialloc: no inodes")
                        ELSE \E r \in {iget(ic, ic[th.cur].dev, a.inum)} :
                          IF r.e = 0 THEN IPanic("iget: no inodes")
                          ELSE IPut(t, r.ic, [ilk EXCEPT ![th.cur] = t],
                                    a.dn, dirent, bitmap,
                                    [th EXCEPT !.pc = "cr_new",
                                               !.dp = th.cur, !.ip = r.e,
                                               !.cur = 0],
                                    ifile, IInc(ihold, t, r.e))

\* create with the new inode: ilock(ip); ip->nlink = 1; iupdate(ip);
\* dirlink(dp, name, ip->inum); iunlock(dp), on to iput(dp)
cr_new(t) ==
  /\ ipanic = ""
  /\ ith[t].pc = "cr_new"
  /\ ilk[ith[t].ip] = 0
  /\ \E th \in {ith[t]} :
     \E ic \in {ilock(icache, dinode, th.ip)} :
       IF ilock_panic(icache, dinode, th.ip) # ""
       THEN IPanic(ilock_panic(icache, dinode, th.ip))
       ELSE IF dirent[th.name] # 0 THEN IPanic("create: dirlink")
       ELSE \E ic2 \in {[ic EXCEPT ![th.ip].nlink = 1]} :
              IPut(t, ic2, [ilk EXCEPT ![th.dp] = 0, ![th.ip] = t],
                   iupdate(dinode, ic2, th.ip),
                   [dirent EXCEPT ![th.name] = ic2[th.ip].inum], bitmap,
                   [th EXCEPT !.pc = "iput", !.x = th.dp, !.kp = "op_fin",
                              !.dp = 0],
                   ifile, ihold)

\* sys_open with create's locked inode: f->ip = ip; iunlock(ip)
op_fin(t) ==
  /\ ipanic = ""
  /\ ith[t].pc = "op_fin"
  /\ IPut(t, icache, [ilk EXCEPT ![ith[t].ip] = 0], dinode, dirent, bitmap,
          IIdle, [ifile EXCEPT ![t] = ith[t].ip], ihold)

\* sys_close(fd) of the last descriptor of the file: fileclose's iput
sys_close_file(t) ==
  /\ ipanic = ""
  /\ ith[t].pc = "idle"
  /\ ifile[t] # 0
  /\ IputBegin(t, ifile[t], "idle", [IIdle EXCEPT !.op = "close"],
               [ifile EXCEPT ![t] = 0])

\* sys_write(fd) of at most a block at offset 0: filewrite's ilock(f->ip),
\* writei with bmap(ip, 0) and its balloc, iupdate, iunlock
sys_write_file(t) ==
  /\ ipanic = ""
  /\ ith[t].pc = "idle"
  /\ ifile[t] # 0
  /\ ilk[ifile[t]] = 0
  /\ \E e \in {ifile[t]} :
       IF icache[e].addrs # {}
       THEN IPut(t, icache, ilk, iupdate(dinode, icache, e), dirent, bitmap,
                 IIdle, ifile, ihold)
       ELSE IF DataBlocks \ bitmap = {} THEN IPanic("balloc: out of blocks")
       ELSE \E b \in {First(DataBlocks \ bitmap)} :
            \E ic \in {[icache EXCEPT ![e].addrs = {b}]} :
              IPut(t, ic, ilk, iupdate(dinode, ic, e), dirent,
                   bitmap \cup {b}, IIdle, ifile, ihold)

NextInode ==
  \E t \in IThreads :
     \/ \E old \in Names, new \in IPaths :
          sys_link(t, <<old>>, new) /\ UNCHANGED notIn
     \/ \E n \in Names : sys_unlink(t, <<n>>) /\ UNCHANGED notIn
     \/ \E n \in Names, creat \in BOOLEAN :
          sys_open_path(t, <<n>>, creat) /\ UNCHANGED notIn
     \/ sys_close_file(t) /\ UNCHANGED notIn
     \/ sys_write_file(t) /\ UNCHANGED notIn
     \/ namex_idup(t) /\ UNCHANGED notIn
     \/ namex_step(t) /\ UNCHANGED notIn
     \/ iput_begin(t) /\ UNCHANGED notIn
     \/ iput_trunc(t) /\ UNCHANGED notIn
     \/ iput_inval(t) /\ UNCHANGED notIn
     \/ iput_dec(t) /\ UNCHANGED notIn
     \/ link_ip(t) /\ UNCHANGED notIn
     \/ link_dp(t) /\ UNCHANGED notIn
     \/ link_dlput(t) /\ UNCHANGED notIn
     \/ link_dpf(t) /\ UNCHANGED notIn
     \/ link_bad(t) /\ UNCHANGED notIn
     \/ link_ok(t) /\ UNCHANGED notIn
     \/ ul_dp(t) /\ UNCHANGED notIn
     \/ ul_ip(t) /\ UNCHANGED notIn
     \/ ul_dec(t) /\ UNCHANGED notIn
     \/ op_ip(t) /\ UNCHANGED notIn
     \/ cr_dp(t) /\ UNCHANGED notIn
     \/ cr_new(t) /\ UNCHANGED notIn
     \/ op_fin(t) /\ UNCHANGED notIn

(***************************************************************************)
(* kernel/sysfile.c: memory-mapped regions.  Addresses are counted in      *)
(* units of which PGSIZE make a page; uint64 values wrap at MaxU64.  One   *)
(* process maps one open file, readable and writable.                      *)
(***************************************************************************)
MMAPEND == MaxMPages * PGSIZE
MAddrs == 0..(MaxU64 - 1)
MPages == 0..(MaxMPages - 1)
\* the prot arguments of the mmap calls
Prots == {{"PROT_READ"}, {"PROT_READ", "PROT_WRITE"}, {"PROT_READ", "PROT_EXEC"}}

U64(x) == x % MaxU64
PGROUNDUP(a) == ((a + PGSIZE - 1) \div PGSIZE) * PGSIZE
PGROUNDDOWN(a) == (a \div PGSIZE) * PGSIZE

NoMVma == [valid |-> 0, vastart |-> 0, sz |-> 0, prot |-> {}, offset |-> 0]

InitMmap ==
  /\ mvmas = [i \in Vmas |-> NoMVma]
  /\ mfref = 1
  /\ mpte = [g \in MPages |-> {}]
  /\ mret = [call |-> "none", addr |-> 0, sz |-> 0, val |-> 0]
  /\ mpanic = ""

\* sys_mmap's scan: the end of the new region is below every valid region
RECURSIVE MVaend(_, _, _)
MVaend(vm, i, vaend) ==
  IF i > NVMA THEN vaend
  ELSE MVaend(vm, i + 1,
              IF vm[i].valid = 1 /\ vm[i].vastart < vaend
              THEN PGROUNDDOWN(vm[i].vastart) ELSE vaend)

\* sys_mmap(0, sz, prot, flags, fd, offset) with sz > 0 that fits below the
\* regions there are: the first vma that is not valid gets the region,
\* filedup(f)
sys_mmap_region(sz, prot) ==
  /\ mpanic = ""
  /\ PGROUNDUP(sz) <= MVaend(mvmas, 1, MMAPEND)
  /\ IF {i \in Vmas : mvmas[i].valid = 0} = {}
     THEN /\ mpanic' = "mmap: no free vma"
          /\ UNCHANGED <<mvmas, mfref, mpte, mret>>
     ELSE /\ mvmas' = [mvmas EXCEPT ![First({i \in Vmas : mvmas[i].valid = 0})] =
                         [valid |-> 1,
                          vastart |-> MVaend(mvmas, 1, MMAPEND) - PGROUNDUP(sz),
                          sz |-> PGROUNDUP(sz), prot |-> prot, offset |-> 0]]
          /\ mfref' = mfref + 1
          /\ mret' = [call |-> "mmap", addr |-> 0, sz |-> sz,
                      val |-> MVaend(mvmas, 1, MMAPEND) - PGROUNDUP(sz)]
          /\ UNCHANGED <<mpte, mpanic>>

\* findvma(p, va): the vmas that are valid and hold va; the first is returned
findvma(vm, va) ==
  {i \in Vmas : /\ vm[i].valid = 1
                /\ va >= vm[i].vastart
                /\ va < U64(vm[i].vastart + vm[i].sz)}

\* vmatrylazytouch: the perm it computes from v->prot
lazy_perm(prot) ==
  {"PTE_U"} \cup (IF "PROT_READ" \in prot THEN {"PTE_R"} ELSE {})
            \cup (IF "PROT_WRITE" \in prot THEN {"PTE_W"} ELSE {})
            \cup (IF "PROT_EXEC" \in prot THEN {"PTE_X"} ELSE {})

\* vmatrylazytouch: the perm it passes to mappages
lazy_mapped(prot) == {"PTE_R", "PTE_W", "PTE_U"}

\* vmatrylazytouch(va) on a page fault at va: no region, return 0; else a
\* page is allocated, read from the file and mapped at PGROUNDDOWN(va);
\* mappages panics on a page that is mapped
vmatrylazytouch(va) ==
  /\ mpanic = ""
  /\ va < MMAPEND
  /\ IF findvma(mvmas, va) = {}
     THEN /\ mret' = [call |-> "touch", addr |-> va, sz |-> 0, val |-> 0]
          /\ UNCHANGED <<mvmas, mfref, mpte, mpanic>>
     ELSE IF mpte[va \div PGSIZE] # {}
     THEN /\ mpanic' = "remap"
          /\ UNCHANGED <<mvmas, mfref, mpte, mret>>
     ELSE /\ mpte' = [mpte EXCEPT ![va \div PGSIZE] =
                        lazy_mapped(mvmas[First(findvma(mvmas, va))].prot)]
          /\ mret' = [call |-> "touch", addr |-> va, sz |-> 0, val |-> 1]
          /\ UNCHANGED <<mvmas, mfref, mpanic>>

\* vmaunmap(pagetable, va, nbytes, v): the mapped pages that start in
\* [va, va + nbytes) are unmapped
vmaunmap(pt, va, nbytes) ==
  [g \in MPages |->
     IF va <= g * PGSIZE /\ g * PGSIZE < va + nbytes THEN {} ELSE pt[g]]

\* sys_munmap: addr_aligned and the int nunmap
addr_aligned(v, addr) == IF addr > v.vastart THEN PGROUNDUP(addr) ELSE addr
nunmap(v, addr, sz) ==
  IF sz - (addr_aligned(v, addr) - addr) < 0 THEN 0
  ELSE sz - (addr_aligned(v, addr) - addr)

\* sys_munmap: the region after the call: offset, vastart and sz, and
\* valid = 0 once sz is 0
munmap_vma(v, addr, sz) ==
  [v EXCEPT
     !.offset = IF addr <= v.vastart /\ addr + sz > v.vastart
                THEN U64(@ + addr + sz - v.vastart) ELSE @,
     !.vastart = IF addr <= v.vastart /\ addr + sz > v.vastart
                 THEN U64(addr + sz) ELSE @,
     !.sz = U64(@ - sz),
     !.valid = IF U64(v.sz - sz) = 0 THEN 0 ELSE @]

\* sys_munmap(addr, sz)
sys_munmap_range(addr, sz) ==
  /\ mpanic = ""
  /\ IF sz = 0 \/ findvma(mvmas, addr) = {}
     THEN /\ mret' = [call |-> "munmap", addr |-> addr, sz |-> sz, val |-> -1]
          /\ UNCHANGED <<mvmas, mfref, mpte, mpanic>>
     ELSE \E i \in {First(findvma(mvmas, addr))} :
          IF addr > mvmas[i].vastart
             /\ addr + sz < U64(mvmas[i].vastart + mvmas[i].sz)
          THEN /\ mret' = [call |-> "munmap", addr |-> addr, sz |-> sz,
                           val |-> -1]
               /\ UNCHANGED <<mvmas, mfref, mpte, mpanic>>
          ELSE /\ mpte' = vmaunmap(mpte, addr_aligned(mvmas[i], addr),
                                   nunmap(mvmas[i], addr, sz))
               /\ mvmas' = [mvmas EXCEPT ![i] = munmap_vma(@, addr, sz)]
               /\ mfref' = IF munmap_vma(mvmas[i], addr, sz).valid = 0
                           THEN mfref - 1 ELSE mfref
               /\ mret' = [call |-> "munmap", addr |-> addr, sz |-> sz,
                           val |-> 0]
               /\ UNCHANGED mpanic

NextMmap ==
  \/ \E sz \in 1..MMAPEND, prot \in Prots :
       sys_mmap_region(sz, prot) /\ UNCHANGED notMu
  \/ \E va \in 0..(MMAPEND - 1) : vmatrylazytouch(va) /\ UNCHANGED notMu
  \/ \E addr \in 0..(MMAPEND - 1), sz \in 0..(MMAPEND + 1) :
       sys_munmap_range(addr, sz) /\ UNCHANGED notMu

(***************************************************************************)
(* kernel/file.c filewrite() on an inode, with writei(), bmap() and        *)
(* balloc() of kernel/fs.c: one call that writes fwn bytes at f->off.      *)
(* A block is named <<kind, number>>: <<"blk", b>> is the disk block b     *)
(* handed out by balloc, <<"old", k>> a block the file had before the      *)
(* call, <<"bitmap", j>> the j-th bitmap block, <<"inode", 0>> the block   *)
(* that holds the file's dinode.                                           *)
(***************************************************************************)
BPB == BSIZE * 8
BBLOCK(b) == <<"bitmap", b \div BPB>>
MAXFILE == NDIRECT + NINDIRECT + NINDIRECT * NINDIRECT
NoBlock == <<"none", 0>>
InodeBlock == <<"inode", 0>>
FileBlocks == 0 .. (MAXFILE - 1)

\* the block map of a file of nb blocks written before the call: every block
\* below the size is there (writei refuses to write beyond the size), and
\* so are the indirect blocks that lead to them
OldMap(nb) ==
  [data |-> [bn \in FileBlocks |-> IF bn < nb THEN <<"old", bn>> ELSE NoBlock],
   ind  |-> IF nb > NDIRECT THEN <<"old", MAXFILE>> ELSE NoBlock,
   dbl  |-> IF nb > NDIRECT + NINDIRECT THEN <<"old", MAXFILE + 1>> ELSE NoBlock,
   l2   |-> [k \in 0 .. (NINDIRECT - 1) |->
               IF nb > NDIRECT + NINDIRECT + k * NINDIRECT
                 THEN <<"old", MAXFILE + 2 + k>> ELSE NoBlock]]

\* the file has size bytes, f->off is off, the call asks for n bytes, and the
\* free blocks of the disk are lo .. FSSIZE-1
InitFile(size, off, n, lo) ==
  /\ fwsize = size
  /\ fwoff = off
  /\ fwn = n
  /\ fwmap = OldMap((size + BSIZE - 1) \div BSIZE)
  /\ fwfree = lo .. (FSSIZE - 1)
  /\ fwlog = {}
  /\ fwi = 0
  /\ fwn1 = 0
  /\ fwtot = 0
  /\ fwwoff = 0
  /\ fwpc = IF 0 < n THEN "chunk" ELSE "done"
  /\ fwret = IF 0 < n THEN -2 ELSE n
  /\ fwpanic = ""

\* balloc(): the first block whose bit is clear; the bitmap block is logged,
\* and bzero() logs the block itself
balloc(st) ==
  IF st.free = {} THEN [st EXCEPT !.panic = "balloc: out of blocks"]
  ELSE Bind(CHOOSE b \in st.free : \A o \in st.free : b <= o,
            LAMBDA b : [st EXCEPT !.free = @ \ {b},
                                  !.log = @ \cup {BBLOCK(b), <<"blk", b>>},
                                  !.addr = <<"blk", b>>])

\* bmap(), bn < NDIRECT
bmap_direct(st, bn) ==
  IF st.map.data[bn] = NoBlock
    THEN Bind(balloc(st), LAMBDA s : [s EXCEPT !.map.data[bn] = s.addr])
    ELSE [st EXCEPT !.addr = st.map.data[bn]]

\* an entry of an indirect block: if(a[i] == 0){ a[i] = balloc(); log_write(bp) }
bmap_entry(st, ib, bn) ==
  IF st.map.data[bn] = NoBlock
    THEN Bind(balloc(st),
              LAMBDA s : [s EXCEPT !.map.data[bn] = s.addr,
                                   !.log = @ \cup {ib}])
    ELSE [st EXCEPT !.addr = st.map.data[bn]]

\* bmap(), the singly-indirect block; bn is the block of the file
bmap_indirect(st, bn) ==
  Bind(IF st.map.ind = NoBlock
         THEN Bind(balloc(st), LAMBDA s : [s EXCEPT !.map.ind = s.addr])
         ELSE st,
       LAMBDA s1 : bmap_entry(s1, s1.map.ind, bn))

\* bmap(), the doubly-indirect block: its first level names the second-level
\* block k, which names the data block
bmap_double(st, bn, k) ==
  Bind(IF st.map.dbl = NoBlock
         THEN Bind(balloc(st), LAMBDA s : [s EXCEPT !.map.dbl = s.addr])
         ELSE st,
       LAMBDA s1 :
         Bind(IF s1.map.l2[k] = NoBlock
                THEN Bind(balloc(s1),
                          LAMBDA s : [s EXCEPT !.map.l2[k] = s.addr,
                                               !.log = @ \cup {s1.map.dbl}])
                ELSE s1,
              LAMBDA s2 : bmap_entry(s2, s2.map.l2[k], bn)))

bmap(st, bn) ==
  IF bn < NDIRECT THEN bmap_direct(st, bn)
  ELSE IF bn - NDIRECT < NINDIRECT THEN bmap_indirect(st, bn)
  ELSE IF bn - NDIRECT - NINDIRECT < NINDIRECT * NINDIRECT
    THEN bmap_double(st, bn, (bn - NDIRECT - NINDIRECT) \div NINDIRECT)
  ELSE [st EXCEPT !.panic = "bmap: out of range"]

\* a chunk size that leaves out the two blocks of a write that is not aligned
max_aligned == ((FwMaxOpBlocks - 1 - 1) \div 2) * BSIZE

\* filewrite: the most bytes of one transaction
max == ((FwMaxOpBlocks - 1 - 1 - 2) \div 2) * BSIZE

min(a, b) == IF a < b THEN a ELSE b

\* filewrite: one turn of while(i < n) up to writei's tests of off and n
filewrite_chunk ==
  /\ fwpc = "chunk"
  /\ fwpanic = ""
  /\ \E n1 \in {IF fwn - fwi > max THEN max ELSE fwn - fwi} :
       /\ fwn1' = n1
       /\ fwlog' = {}
       /\ IF fwoff > fwsize \/ fwoff + n1 > MAXFILE * BSIZE
            THEN /\ fwpc' = "done"
                 /\ fwret' = -1
                 /\ UNCHANGED <<fwtot, fwwoff>>
            ELSE /\ fwpc' = "loop"
                 /\ fwtot' = 0
                 /\ fwwoff' = fwoff
                 /\ UNCHANGED fwret
  /\ UNCHANGED <<fwsize, fwoff, fwn, fwmap, fwfree, fwi, fwpanic>>

\* writei: one turn of its loop; copy is the outcome of either_copyin
writei_block(copy) ==
  /\ fwpc = "loop"
  /\ \E st \in {bmap([map |-> fwmap, free |-> fwfree, log |-> fwlog,
                      addr |-> NoBlock, panic |-> ""], fwwoff \div BSIZE)},
        m \in {min(fwn1 - fwtot, BSIZE - (fwwoff % BSIZE))} :
       IF st.panic # ""
         THEN /\ fwpanic' = st.panic
              /\ fwpc' = "panic"
              /\ UNCHANGED <<fwmap, fwfree, fwlog, fwtot, fwwoff>>
         ELSE /\ fwmap' = st.map
              /\ fwfree' = st.free
              /\ UNCHANGED fwpanic
              /\ IF copy = "bad"
                   THEN /\ fwlog' = st.log
                        /\ fwpc' = "inode"
                        /\ UNCHANGED <<fwtot, fwwoff>>
                   ELSE /\ fwlog' = st.log \cup {st.addr}
                        /\ fwtot' = fwtot + m
                        /\ fwwoff' = fwwoff + m
                        /\ fwpc' = IF fwtot + m < fwn1 THEN "loop" ELSE "inode"
  /\ UNCHANGED <<fwsize, fwoff, fwn, fwi, fwn1, fwret>>

\* writei: the new size and iupdate(); filewrite: f->off += r, end_op(),
\* the test of r and i += r
writei_end ==
  /\ fwpc = "inode"
  /\ fwsize' = IF fwwoff > fwsize THEN fwwoff ELSE fwsize
  /\ fwlog' = fwlog \cup {InodeBlock}
  /\ fwoff' = IF fwtot > 0 THEN fwoff + fwtot ELSE fwoff
  /\ IF fwtot # fwn1
       THEN /\ fwpc' = "done"
            /\ fwret' = -1
            /\ UNCHANGED fwi
       ELSE /\ fwi' = fwi + fwtot
            /\ fwpc' = IF fwi + fwtot < fwn THEN "chunk" ELSE "done"
            /\ fwret' = IF fwi + fwtot < fwn THEN fwret ELSE fwn
  /\ UNCHANGED <<fwn, fwmap, fwfree, fwn1, fwtot, fwwoff, fwpanic>>

\* every part of the kernel but the call of filewrite()
InitRest ==
  /\ InitLock /\ InitProc /\ InitLog /\ binit /\ InitRes /\ kinit
  /\ InitInode /\ InitMmap

InitBoot == InitRest /\ InitFile(0, 0, 0, BPB)

Init == InitBoot /\ logsize = LOGSIZE /\ InitVm(NVmFrame)

\* the kernel on a machine of any of the memory sizes
InitMem ==
  InitBoot /\ logsize = LOGSIZE /\ \E n \in MinVmFrame..NVmFrame : InitVm(n)

SpecLock == Init /\ [][NextLock]_vars

SpecProc == Init /\ [][NextProc]_vars

SpecSleep == Init /\ [][NextSleep]_vars

\* the kernel on a disk whose superblock has either log size
InitDisk == InitBoot /\ logsize \in LogSizes /\ InitVm(NVmFrame)

SpecLog == InitDisk /\ [][NextLog]_vars

SpecCrash == InitDisk /\ [][NextCrash]_vars

SpecBcache == Init /\ [][NextBcache]_vars

SpecRes == Init /\ [][NextRes]_vars

SpecKalloc == Init /\ [][NextKalloc]_vars

SpecInode == Init /\ [][NextInode]_vars

SpecMmap == Init /\ [][NextMmap]_vars

SpecVm == InitMem /\ [][NextVm]_vars

\* readers only (bread, brelse) on enough blocks that a caller can miss
\* while every buffer is assigned: the scan of bget() then finds a
\* candidate in one bucket and a less recently used one in a later bucket
ScanBlocknos == 1..NScanBlockno

NextScan ==
  \/ \E t \in BThreads, n \in ScanBlocknos :
       bread_call(t, n, "use") /\ UNCHANGED ticks /\ UNCHANGED notBc
  \/ \E t \in BThreads : bget_hit(t) /\ UNCHANGED ticks /\ UNCHANGED notBc
  \/ \E t \in BThreads : bget_recheck(t) /\ UNCHANGED ticks /\ UNCHANGED notBc
  \/ \E t \in BThreads : bget_scan_acq(t) /\ UNCHANGED ticks /\ UNCHANGED notBc
  \/ \E t \in BThreads : bget_scan(t) /\ UNCHANGED ticks /\ UNCHANGED notBc
  \/ \E t \in BThreads : bget_pick(t) /\ UNCHANGED ticks /\ UNCHANGED notBc
  \/ \E t \in BThreads : bget_move(t) /\ UNCHANGED ticks /\ UNCHANGED notBc
  \/ \E t \in BThreads : acquiresleep(t) /\ UNCHANGED ticks /\ UNCHANGED notBc
  \/ \E t \in BThreads : bread(t) /\ UNCHANGED ticks /\ UNCHANGED notBc
  \/ \E t \in BThreads : releasesleep(t) /\ UNCHANGED ticks /\ UNCHANGED notBc
  \/ \E t \in BThreads : brelse(t) /\ UNCHANGED ticks /\ UNCHANGED notBc
  \/ bc_clockintr /\ UNCHANGED bcVars /\ UNCHANGED notBc

SpecScan == Init /\ [][NextScan]_vars

\* callers that work on the blocks of one bucket again and again
ReadBlocknos == {n \in Blocknos : BUFMAP_HASH(ROOTDEV, n) = BUFMAP_HASH(ROOTDEV, 1)}

NextBread ==
  \/ \E t \in BThreads, n \in ReadBlocknos, m \in BModes :
       bread_call(t, n, m) /\ UNCHANGED ticks /\ UNCHANGED notBc
  \/ \E t \in BThreads : bget_hit(t) /\ UNCHANGED ticks /\ UNCHANGED notBc
  \/ \E t \in BThreads : bget_recheck(t) /\ UNCHANGED ticks /\ UNCHANGED notBc
  \/ \E t \in BThreads : bget_scan_acq(t) /\ UNCHANGED ticks /\ UNCHANGED notBc
  \/ \E t \in BThreads : bget_scan(t) /\ UNCHANGED ticks /\ UNCHANGED notBc
  \/ \E t \in BThreads : bget_pick(t) /\ UNCHANGED ticks /\ UNCHANGED notBc
  \/ \E t \in BThreads : bget_move(t) /\ UNCHANGED ticks /\ UNCHANGED notBc
  \/ \E t \in BThreads : acquiresleep(t) /\ UNCHANGED ticks /\ UNCHANGED notBc
  \/ \E t \in BThreads : bread(t) /\ UNCHANGED ticks /\ UNCHANGED notBc
  \/ \E t \in BThreads : bpin(t) /\ UNCHANGED ticks /\ UNCHANGED notBc
  \/ \E t \in BThreads : bunpin(t) /\ UNCHANGED ticks /\ UNCHANGED notBc
  \/ \E t \in BThreads : releasesleep(t) /\ UNCHANGED ticks /\ UNCHANGED notBc
  \/ \E t \in BThreads : brelse(t) /\ UNCHANGED ticks /\ UNCHANGED notBc

SpecBread == Init /\ [][NextBread]_vars

\* the steps of caller t that begin with acquire() of a bucket lock or of
\* eviction_lock: t spins with interrupts off until it has the lock
SpinStep(t) ==
  \/ bget_hit(t)
  \/ bget_recheck(t)
  \/ bget_scan_acq(t)
  \/ bget_move(t)
  \/ bpin(t)
  \/ bunpin(t)
  \/ brelse(t)

\* the other steps of t inside bread() .. brelse(); in acquiresleep() t
\* sleeps while the sleep lock is held
BStep(t) ==
  \/ bget_scan(t)
  \/ bget_pick(t)
  \/ acquiresleep(t)
  \/ bread(t)
  \/ releasesleep(t)

\* a hart that spins on a spinlock gets it if the lock keeps coming free;
\* the scheduler keeps running every caller that can take a step, but
\* nothing makes a caller woken from a sleep lock run before another
\* caller takes the lock again
FairBread ==
  /\ SpecBread
  /\ \A t \in BThreads : SF_vars(SpinStep(t) /\ UNCHANGED ticks /\ UNCHANGED notBc)
  /\ \A t \in BThreads : WF_vars(BStep(t) /\ UNCHANGED ticks /\ UNCHANGED notBc)

\* a step of the kernel thread of p on hart c that is not a choice of the
\* user program and not an interrupt
KernelStep(p, c) ==
  \/ forkret(p, c)
  \/ y_rel(p, c)
  \/ sys_return(p, c)
  \/ ap_scan(p, c)
  \/ \E mem \in {"ok", "tf", "pt"} : ap_found(p, c, mem)
  \/ \E mem \in {"ok", "fail"} : fk_copy(p, c, mem)
  \/ ss_acq(p, c)
  \/ ss_loop(p, c)
  \/ sl_acq(p, c)
  \/ sl_rel(p, c)
  \/ sl_sleep(p, c)
  \/ sl_wake(p, c)
  \/ sl_reacq(p, c)

\* SpecSleep with the progress the hardware gives: a hart goes on executing
\* the kernel code it is in (weak fairness of the steps of a kernel thread
\* and of the scheduler); clockintr() runs with interrupts off and each
\* acquire() of its wakeup() spins until it gets p->lock, which is free
\* again and again (strong fairness)
FairSleep ==
  /\ SpecSleep
  /\ SF_vars(wk_scan /\ UNCHANGED notProc)
  /\ WF_vars(ci_rel /\ UNCHANGED notProc)
  /\ \A c \in Cpus : WF_vars((s_scan(c) \/ s_back(c)) /\ UNCHANGED notProc)
  /\ \A p \in Procs, c \in Cpus : WF_vars(KernelStep(p, c) /\ UNCHANGED notProc)

(***************************************************************************)
(* C1: for any interleaving of acquire(lk) and release(lk) by several      *)
(* harts on the same spinlock, at most one hart is inside the critical     *)
(* section (has returned from acquire and not yet called release).         *)
(***************************************************************************)
C1_MutualExclusion ==
  \A l \in Locks : \A h1, h2 \in Harts :
    (l \in incs[h1] /\ l \in incs[h2]) => h1 = h2

\* one hart is inside the critical section of a lock while another hart
\* spins on the same lock
C1_Witness ==
  \E l \in Locks : \E h1, h2 \in Harts :
    /\ h1 # h2
    /\ l \in incs[h1]
    /\ hpc[h2].pc = "acq_tas" /\ hpc[h2].l = l

(***************************************************************************)
(* C2: no lost wakeup between sleep(&ticks, &tickslock) and                *)
(* wakeup(&ticks).  The waker (clockintr) changes the condition and wakes  *)
(* under tickslock, the sleeper (sys_sleep) tests ticks - ticks0 < n under *)
(* tickslock.  Whenever tickslock is free, a process that is SLEEPING on   *)
(* &ticks, or is past its test on the way to sleep, has a condition that   *)
(* is still false; and a process that has tested and is on its way to      *)
(* sleep, or asleep, when a wakeup(&ticks) starts, is made RUNNABLE.       *)
(***************************************************************************)
\* p has tested the condition in sys_sleep() and has not yet been woken
Sleeper(p) ==
  \/ pstate[p] = "SLEEPING" /\ pchan[p] = TicksChan
  \/ kpc[p].pc \in {"sl_acq", "sl_rel", "sl_sleep"}

CondTrue(p) == ticks - kpc[p].b >= kpc[p].a

C2_CondFalseWhileAsleep ==
  slk[TicksLock] = 0 => \A p \in Procs : Sleeper(p) => ~CondTrue(p)

C2_NoLostWakeup ==
  /\ []C2_CondFalseWhileAsleep
  /\ \A p \in Procs :
       (ci.pc = "wk_scan" /\ Sleeper(p)) ~> (pstate[p] = "RUNNABLE")

\* clockintr() has taken tickslock and starts wakeup(&ticks) while a process
\* that tested the condition before the tick has given up tickslock but is
\* not yet SLEEPING: it still holds p->lock on the way to sched()
C2_Witness ==
  \E p \in Procs :
    /\ ci.pc = "wk_scan"
    /\ kpc[p].pc = "sl_sleep"
    /\ pstate[p] = "RUNNING"
    /\ CondTrue(p)

(***************************************************************************)
(* C3: at every moment each process whose state is RUNNING is the current  *)
(* process (c->proc) of exactly one hart, and no process is the current    *)
(* process of two harts: two scheduler loops never both pick the same      *)
(* RUNNABLE descriptor.                                                    *)
(***************************************************************************)
HartsOf(p) == {c \in Cpus : cproc[c] = p}

C3_RunningOnOneHart ==
  \A p \in Procs :
    /\ Cardinality(HartsOf(p)) <= 1
    /\ pstate[p] = "RUNNING" => Cardinality(HartsOf(p)) = 1

\* a hart runs p, which its scheduler found RUNNABLE, while the scheduler
\* loop of another hart is at the same descriptor
C3_Witness ==
  \E p \in Procs : \E c1, c2 \in Cpus :
    /\ c1 # c2
    /\ pstate[p] = "RUNNING" /\ cproc[c1] = p /\ slk[p] = 0
    /\ ctx[c2] = "sched" /\ spc[c2] = [pc |-> "scan", i |-> p]

(***************************************************************************)
(* C4: the state of a process descriptor changes only along the edges      *)
(* UNUSED->RUNNABLE, RUNNABLE->RUNNING, RUNNING->RUNNABLE,                 *)
(* RUNNING->SLEEPING, SLEEPING->RUNNABLE, RUNNING->ZOMBIE, ZOMBIE->UNUSED, *)
(* in every step of fork, exit, wait, kill, yield and the schedulers.      *)
(***************************************************************************)
Edges ==
  { <<"UNUSED", "RUNNABLE">>, <<"RUNNABLE", "RUNNING">>,
    <<"RUNNING", "RUNNABLE">>, <<"RUNNING", "SLEEPING">>,
    <<"SLEEPING", "RUNNABLE">>, <<"RUNNING", "ZOMBIE">>,
    <<"ZOMBIE", "UNUSED">> }

C4_StateEdges ==
  [][\A p \in Procs :
       pstate'[p] # pstate[p] => <<pstate[p], pstate'[p]>> \in Edges]_vars

\* every pid has been handed out, and a process that sleeps in wait(), one
\* that has exited and one that runs are there at once
C4_Witness ==
  /\ nextpid > MaxPid
  /\ \E p, q, r \in Procs :
       /\ pstate[p] = "SLEEPING"
       /\ pstate[q] = "ZOMBIE"
       /\ pstate[r] = "RUNNING"

(***************************************************************************)
(* C5: a wait() call that finds an exited child np (exit(s) made it a      *)
(* ZOMBIE), with addr 0 or an address copyout() can write, returns the pid *)
(* of np; with such an address the status copied out is the s that np      *)
(* passed to exit(); the descriptor of np becomes UNUSED and no descriptor *)
(* carries its pid afterwards, so that no other wait() returns it.  With   *)
(* an address copyout() fails on, wait() returns -1 and np stays a ZOMBIE. *)
(* A parent other than init that sleeps in wait() has no ZOMBIE child: the *)
(* wakeup1() of exit() is not lost.                                        *)
(***************************************************************************)
\* this step is the return of a wait() call of p that found a ZOMBIE
WaitFound(p) ==
  /\ kpc[p].pc = "w_np"
  /\ kpc'[p].pc = "sysret"

C5_Reap(p) ==
  LET np   == kpc[p].i
      addr == kpc[p].a
      pid  == ppid[np]
  IN  /\ pstate[np] = "ZOMBIE"
      /\ pparent[np] = p
      /\ exited[pid] # {}
      /\ IF addr = "bad"
           THEN /\ sysret'[p].val = -1
                /\ pstate'[np] = "ZOMBIE"
           ELSE /\ sysret'[p].val = pid
                /\ addr = "ok" => exited[pid] = {sysret'[p].x}
                /\ pstate'[np] = "UNUSED"
                /\ \A r \in Procs : ppid'[r] # pid

\* the pid a wait() has returned is the pid of no descriptor, and
\* allocpid() is past it
C5_ReapedOnce ==
  /\ \A r \in Procs : ppid[r] < nextpid
  /\ \A p \in Procs :
       (sysret[p].sys = "wait" /\ sysret[p].val > 0) =>
          \A r \in Procs : ppid[r] # sysret[p].val

C5_ParentWoken ==
  \A p \in Procs \ {initproc} :
    (pstate[p] = "SLEEPING" /\ pchan[p] = p /\ slk[p] = 0) =>
       \A np \in Procs : ~(pparent[np] = p /\ pstate[np] = "ZOMBIE")

C6_CrashAtomic ==
  /\ dhead = <<>> => \A b \in LogBlocks : dhome[b] = committed[b]
  /\ dhead # <<>> =>
       /\ \A i \in DOMAIN dhead : dlog[i] = committed[dhead[i]]
       /\ \A b \in LogBlocks \ Range(dhead) : dhome[b] = committed[b]

\* the machine stopped after the commit header write and before the
\* logged blocks were all at home: recover_from_log() is installing them
C6_Witness ==
  /\ rec.pc = "install"
  /\ \E b \in Range(dhead) : dhome[b] # committed[b]

(***************************************************************************)
(* C7: whenever log.committing is set, log.outstanding is 0 and no call is *)
(* between begin_op() and end_op(): begin_op() admits none until           *)
(* committing is cleared.  At most one call is in commit(), committing is  *)
(* set exactly while one is, and end_op() never panics "log.committing".   *)
(***************************************************************************)
InOp(p) == opc[p].pc \in {"op", "lw"}

InCommit(p) ==
  opc[p].pc \in {"commit", "write_log", "write_head", "install", "truncate", "e_done"}

C7_CommitAlone ==
  /\ outstanding = Cardinality({p \in LogOps : InOp(p)})
  /\ committing = 1 => (outstanding = 0 /\ \A p \in LogOps : ~InOp(p))
  /\ Cardinality({p \in LogOps : InCommit(p)}) <= 1
  /\ committing = 1 <=> \E p \in LogOps : InCommit(p)
  /\ lpanic # "log.committing"

\* a call that came to begin_op() during the commit of a transaction that
\* holds blocks sleeps on &log
C7_Witness ==
  /\ committing = 1
  /\ \E p \in LogOps : opc[p].pc = "install"
  /\ \E q \in LogOps : opc[q].pc = "b_sleep"

(***************************************************************************)
(* C8 as stated: every call logs at most MAXOPBLOCKS distinct blocks (the  *)
(* guard of log_write in the model), and log_write never panics "too big a *)
(* transaction"; taken on a disk whose log area has room for LOGSIZE data  *)
(* blocks, where the panic can only come from the test against LOGSIZE.    *)
(***************************************************************************)
C8_NeverTooBig ==
  logsize = LOGSIZE + 1 => lpanic # "too big a transaction"

\* what the admission rule of begin_op() does guarantee: the header never
\* holds more than LOGSIZE blocks
C8_HeaderFits == Len(lh) <= LOGSIZE

(***************************************************************************)
(* C9: at any time, under any interleaving of bread/bget/brelse calls, no  *)
(* two buffers of the cache are assigned to the same (dev, blockno); the   *)
(* buffers bget() has never assigned keep the zero dev of the boot image   *)
(* and stand for no block.  A buffer bget() has returned is the buffer of  *)
(* the block asked for.                                                    *)
(***************************************************************************)
HasBuf(t) == bt[t].pc \in {"acquiresleep", "bread", "held", "brelse", "brelse_cnt"}

C9_AtMostOneBuffer ==
  /\ \A b1, b2 \in Bufs :
       (b1 # b2 /\ bdev[b1] = bdev[b2] /\ bblockno[b1] = bblockno[b2])
         => bdev[b1] = 0
  /\ \A t \in BThreads :
       HasBuf(t) => (bdev[bt[t].b] = ROOTDEV /\ bblockno[bt[t].b] = bt[t].blockno)

\* two callers missed on the same block: one has recycled a buffer for it,
\* the other is on its way to eviction_lock and the second look-up
C9_Witness ==
  \E t, u \in BThreads :
    /\ t # u
    /\ bt[t].pc = "evict"
    /\ bt[u].blockno = bt[t].blockno
    /\ bt[u].pc = "acquiresleep"
    /\ bt[u].old # 0
    /\ brefcnt[bt[u].b] = 1

(***************************************************************************)
(* C10: bget() gives a buffer to a different (dev, blockno) only when its  *)
(* refcnt is 0 at that moment: the buffer is then neither held between     *)
(* bread() and brelse() nor pinned by log_write().  So every buffer a      *)
(* caller holds and every pinned block keeps a buffer with refcnt >= 1.    *)
(***************************************************************************)
PinnedBuf(b) == bdev[b] = ROOTDEV /\ bblockno[b] \in pinned

C10_Kept ==
  /\ \A t \in BThreads : HasBuf(t) => brefcnt[bt[t].b] >= 1
  /\ \A n \in pinned :
       \E b \in Bufs : bdev[b] = ROOTDEV /\ bblockno[b] = n /\ brefcnt[b] >= 1

C10_Reassigned(b) == bdev'[b] # bdev[b] \/ bblockno'[b] # bblockno[b]

C10_RecycleOnlyFree ==
  /\ []C10_Kept
  /\ [][\A b \in Bufs :
          C10_Reassigned(b) =>
            /\ brefcnt[b] = 0
            /\ bslock[b] = 0
            /\ ~PinnedBuf(b)
            /\ \A t \in BThreads : ~(HasBuf(t) /\ bt[t].b = b)]_vars

\* a caller got a buffer that held another block before, while another
\* buffer is pinned
C10_Witness ==
  \E t \in BThreads :
    /\ bt[t].pc = "bread"
    /\ bt[t].old # 0
    /\ \E b \in Bufs \ {bt[t].b} : PinnedBuf(b) /\ brefcnt[b] >= 1

(***************************************************************************)
(* C11: between bread() returning a buffer and the matching brelse() no    *)
(* other caller holds that buffer: the callers of one block are serialized *)
(* by the sleep lock of its buffer.  Whenever a caller waits for the sleep *)
(* lock of a buffer, the holder releases it: the buffer becomes free for   *)
(* the waiter (who takes it unless another caller takes it first).         *)
(***************************************************************************)
Holds(t) == bt[t].pc \in {"bread", "held", "brelse"}

Waits(t) == bt[t].pc = "acquiresleep"

C11_OneHolder ==
  /\ \A t, u \in BThreads : (t # u /\ Holds(t) /\ Holds(u)) => bt[t].b # bt[u].b
  /\ \A t \in BThreads : Holds(t) => holdingsleep(bt[t].b, t)

C11_Serialized ==
  /\ []C11_OneHolder
  /\ \A t \in BThreads :
       Waits(t) ~> (Holds(t) \/ (Waits(t) /\ sleeplock_free(bt[t].b)))

\* one caller holds the buffer of a block, the other waits for it
C11_Witness ==
  \E t, u \in BThreads :
    /\ Holds(t)
    /\ Waits(u)
    /\ bt[u].b = bt[t].b
    /\ brefcnt[bt[t].b] = 2

\* C11 as stated: a caller that waits for the buffer is eventually granted it
C11_WaiterGranted == \A t \in BThreads : Waits(t) ~> Holds(t)

(***************************************************************************)
(* C12: lock discipline of the block cache.  A caller that holds more than *)
(* one bucket lock holds eviction_lock too, and no caller acquires         *)
(* eviction_lock while it holds a bucket lock.                             *)
(***************************************************************************)
BucketsHeld(t) == {k \in Buckets : bufmap_locks[k] = t}

C12_Held ==
  \A t \in BThreads : Cardinality(BucketsHeld(t)) > 1 => eviction_lock = t

C12_Order ==
  \A t \in BThreads :
    (eviction_lock # t /\ eviction_lock' = t) => BucketsHeld(t) = {}

C12_LockDiscipline == []C12_Held /\ [][C12_Order]_vars

\* the holder of eviction_lock keeps the lock of the bucket of its
\* candidate and has taken the lock of the next bucket of its scan
C12_Witness ==
  \E t \in BThreads :
    /\ eviction_lock = t
    /\ Cardinality(BucketsHeld(t)) = 2
    /\ \E u \in BThreads : bt[u].pc = "evict"

(***************************************************************************)
(* C13: during the scan of bget() over all buckets the scanning caller     *)
(* holds the lock of the bucket of its best candidate so far, if it has    *)
(* one, and while it looks through bucket i the lock of bucket i as well:  *)
(* at most two bucket locks, the second of a bucket to the right of the    *)
(* first, and at most one between two buckets of the scan.                 *)
(***************************************************************************)
Kept(t) == IF bt[t].holding_bucket = -1 THEN {} ELSE {bt[t].holding_bucket}

C13_ScanLocks ==
  \A t \in BThreads :
    /\ bt[t].pc \in {"scan_acq", "pick"} => BucketsHeld(t) = Kept(t)
    /\ bt[t].pc = "scan" =>
         /\ BucketsHeld(t) = Kept(t) \cup {bt[t].i}
         /\ bt[t].holding_bucket < bt[t].i
    /\ bt[t].pc \notin {"scan_acq", "scan", "pick"} => BucketsHeld(t) = {}
    /\ Cardinality(BucketsHeld(t)) <= 2

\* the scan holds the lock of the candidate's bucket and of the bucket it
\* looks through
C13_Witness ==
  \E t \in BThreads :
    /\ bt[t].pc = "scan"
    /\ bt[t].holding_bucket # -1
    /\ bt[t].before_least # 0
    /\ Cardinality(BucketsHeld(t)) = 2

\* C13 as stated: the scanning caller holds at most one bucket lock
C13_AtMostOne ==
  \A t \in BThreads :
    bt[t].pc \in {"scan_acq", "scan", "pick"} => Cardinality(BucketsHeld(t)) <= 1

(***************************************************************************)
(* C14: no deadlock among the bucket locks and eviction_lock: with callers *)
(* in bget(), brelse(), bpin() and bunpin() on several harts, every caller *)
(* that spins on one of these locks gets it, as long as the holders of the *)
(* locks keep running.                                                     *)
(***************************************************************************)
Spinning(t) ==
  \/ bt[t].pc \in {"bget", "evict", "scan_acq", "move", "brelse_cnt"}
  \/ (bt[t].pc = "held" /\ (bt[t].mode = "install" \/ bt[t].blockno \notin pinned))

C14_NoDeadlock == \A t \in BThreads : Spinning(t) ~> ~Spinning(t)

\* one caller spins on the lock of a bucket that the holder of
\* eviction_lock has taken for its scan, another way round the holder of
\* eviction_lock is about to take a lock of the scan
C14_Witness ==
  \E t, u \in BThreads :
    /\ bt[t].pc \in {"bget", "brelse_cnt", "held"}
    /\ Spinning(t)
    /\ eviction_lock = u
    /\ bt[u].pc = "scan"
    /\ \E k \in BucketsHeld(u) :
         k = IF bt[t].pc = "bget" THEN Key(t) ELSE KeyOf(bt[t].b)

(***************************************************************************)
(* C15: whenever a hart holds a spinlock, or is inside acquire() past      *)
(* push_off() or inside release() before pop_off() (noff > 0), interrupts  *)
(* are disabled on that hart.                                              *)
(***************************************************************************)
C15_IntrOffWhileHolding ==
  \A h \in Harts :
    (noff[h] > 0 \/ \E l \in Locks : holding(l, h)) => intr[h] = 0

\* a hart that had interrupts on holds two spinlocks
C15_Witness ==
  \E h \in Harts :
    /\ noff[h] = 2
    /\ intena[h] = 1
    /\ \A l \in Locks : holding(l, h)

(***************************************************************************)
(* C16: push_off()/pop_off() nest.  The outermost push_off() saves the     *)
(* interrupt-enable bit as it was just before; while the depth stays above *)
(* 0 the saved bit is kept and interrupts stay off (inner pairs never turn *)
(* them on); the pop_off() that brings the depth back to 0 leaves the      *)
(* interrupt-enable bit equal to the saved one.                            *)
(***************************************************************************)
C16_Step ==
  \A h \in Harts :
    /\ (noff[h] = 0 /\ noff'[h] > 0) => intena'[h] = intr[h]
    /\ (noff[h] > 0 /\ noff'[h] > 0) => (intena'[h] = intena[h] /\ intr'[h] = 0)
    /\ (noff[h] > 0 /\ noff'[h] = 0) => intr'[h] = intena[h]

C16_Restores == [][C16_Step]_vars

\* a hart that had interrupts on is at the inner pop_off() of two nested
\* acquire/release pairs
C16_Witness ==
  \E h \in Harts :
    /\ hpc[h].pc = "rel_pop"
    /\ noff[h] = 2
    /\ intena[h] = 1
    /\ intr[h] = 0

(***************************************************************************)
(* C17: whenever a process gives up its hart through sched() (from         *)
(* sleep(), yield() or exit()), the hart holds exactly one spinlock, the   *)
(* p->lock of that process; sleep(), yield() and exit() never reach        *)
(* sched() in another way, so none of the panics of sched() is raised.     *)
(***************************************************************************)
SchedPanics == {"sched p->lock", "sched locks", "sched running"}

C17_Step ==
  \A c \in Cpus :
    (ctx[c] = "proc" /\ ctx'[c] = "sched") =>
      /\ slk'[cproc[c]] = c
      /\ {l \in LockIds : slk'[l] = c} = {cproc[c]}
      /\ pstate'[cproc[c]] # "RUNNING"

C20_ChanWhenUnlocked ==
  \A p \in Procs :
    slk[p] = 0 =>
      /\ pstate[p] = "SLEEPING" => pchan[p] # 0
      /\ pchan[p] # 0 => pstate[p] \in {"SLEEPING", "RUNNABLE"}

\* one process sleeps on a channel with its lock free while another one has
\* come back from sleep() and runs with its channel cleared
C20_Witness ==
  \E p, q \in Procs :
    /\ slk[p] = 0 /\ pstate[p] = "SLEEPING" /\ pchan[p] = TicksChan
    /\ slk[q] = 0 /\ pstate[q] = "RUNNING" /\ pchan[q] = 0
    /\ kpc[q].pc = "sl_reacq"

\* the statement with "if and only if"
C20_ChanIffSleeping ==
  \A p \in Procs : slk[p] = 0 => (pchan[p] # 0 <=> pstate[p] = "SLEEPING")

(***************************************************************************)
(* kill(): the processes of SpecProc with user programs that fork, call    *)
(* kill on the pids of children, wait (children only) and exit; init only  *)
(* forks.  The fair specification lets every hart go on executing          *)
(* (a hart that spins on a lock retries without pause), and the timer      *)
(* interrupt of a hart arrive again and again.                             *)
(***************************************************************************)
ProcStep(p, c) ==
  \/ forkret(p, c)
  \/ y_rel(p, c)
  \/ trap_killed(p, c)
  \/ sys_return(p, c)
  \/ ap_scan(p, c)
  \/ \E mem \in {"ok", "tf", "pt"} : ap_found(p, c, mem)
  \/ \E mem \in {"ok", "fail"} : fk_copy(p, c, mem)
  \/ x_init(p, c)
  \/ x_par(p, c)
  \/ x_op_acq(p, c)
  \/ x_p_acq(p, c)
  \/ rp_chk(p, c)
  \/ rp_set(p, c)
  \/ x_fin(p, c)
  \/ w_acq(p, c)
  \/ w_chk(p, c)
  \/ w_np(p, c)
  \/ w_end(p, c)
  \/ w_wake(p, c)
  \/ k_scan(p, c)

HartStep(c) ==
  \/ s_scan(c)
  \/ s_back(c)
  \/ \E p \in Procs : ProcStep(p, c)

NextKill ==
  \/ \E c \in Cpus :
     \/ s_scan(c) /\ UNCHANGED notProc
     \/ s_back(c) /\ UNCHANGED notProc
  \/ \E p \in Procs, c \in Cpus :
     \/ forkret(p, c) /\ UNCHANGED notProc
     \/ yield(p, c) /\ UNCHANGED notProc
     \/ y_rel(p, c) /\ UNCHANGED notProc
     \/ trap_killed(p, c) /\ UNCHANGED notProc
     \/ sys_return(p, c) /\ UNCHANGED notProc
     \/ sys_fork(p, c) /\ UNCHANGED notProc
     \/ \E s \in ExitStatus : sys_exit(p, c, s) /\ UNCHANGED notProc
     \/ (p # initproc /\ sys_wait(p, c, "null")) /\ UNCHANGED notProc
     \/ \E pid \in 2..MaxPid : sys_kill(p, c, pid) /\ UNCHANGED notProc
     \/ ap_scan(p, c) /\ UNCHANGED notProc
     \/ \E mem \in {"ok", "tf", "pt"} : ap_found(p, c, mem) /\ UNCHANGED notProc
     \/ \E mem \in {"ok", "fail"} : fk_copy(p, c, mem) /\ UNCHANGED notProc
     \/ x_init(p, c) /\ UNCHANGED notProc
     \/ x_par(p, c) /\ UNCHANGED notProc
     \/ x_op_acq(p, c) /\ UNCHANGED notProc
     \/ x_p_acq(p, c) /\ UNCHANGED notProc
     \/ rp_chk(p, c) /\ UNCHANGED notProc
     \/ rp_set(p, c) /\ UNCHANGED notProc
     \/ x_fin(p, c) /\ UNCHANGED notProc
     \/ w_acq(p, c) /\ UNCHANGED notProc
     \/ w_chk(p, c) /\ UNCHANGED notProc
     \/ w_np(p, c) /\ UNCHANGED notProc
     \/ w_end(p, c) /\ UNCHANGED notProc
     \/ w_wake(p, c) /\ UNCHANGED notProc
     \/ k_scan(p, c) /\ UNCHANGED notProc

SpecKill == Init /\ [][NextKill]_vars

FairKill ==
  /\ SpecKill
  /\ \A c \in Cpus : SF_vars(HartStep(c) /\ UNCHANGED notProc)
  /\ \A c \in Cpus : SF_vars((\E p \in Procs : yield(p, c)) /\ UNCHANGED notProc)

Live(p) == pstate[p] \notin {"UNUSED", "ZOMBIE"}

\* p runs exit(status) with a status other than -1
ExitPcs == {"x_init", "x_par", "x_op_acq", "x_p_acq", "rp_chk", "rp_set", "x_fin"}
InExit(p) == kpc[p].pc \in ExitPcs /\ kpc[p].a # -1

(***************************************************************************)
(* C18: a kill(pid) that finds its target sets the target's killed flag    *)
(* and makes a SLEEPING target RUNNABLE; the flag stays set until the      *)
(* descriptor is freed; a process that reaches a test of p->killed in      *)
(* usertrap() with the flag set calls exit(-1) instead of going on to      *)
(* user mode or to yield(); and every live process with the flag set that  *)
(* has not already called exit() eventually is a ZOMBIE with status -1.    *)
(***************************************************************************)
C18_KillSets ==
  \A p \in Procs :
    (kpc[p].pc = "k_scan" /\ sysret'[p] = [sys |-> "kill", val |-> 0, x |-> 0]) =>
      LET q == kpc[p].i IN
        /\ ppid[q] = kpc[p].a
        /\ pkilled'[q] = 1
        /\ pstate[q] = "SLEEPING" => pstate'[q] = "RUNNABLE"

C18_Sticky ==
  \A q \in Procs : (pkilled[q] = 1 /\ pkilled'[q] = 0) => pstate'[q] = "UNUSED"

C18_Boundary ==
  \A p \in Procs :
    /\ (kpc[p].pc = "sysret" /\ kpc'[p].pc = "user") => pkilled[p] = 0
    /\ (kpc[p].pc = "user" /\ kpc'[p].pc = "y_rel") => pkilled[p] = 0
    /\ (pkilled[p] = 1 /\ kpc[p].pc \in {"user", "sysret"} /\ kpc'[p] # kpc[p]) =>
         kpc'[p].pc = "x_init" /\ kpc'[p].a = -1

C18_Exits ==
  \A p \in Procs :
    (pkilled[p] = 1 /\ Live(p) /\ ~InExit(p)) ~> (pstate[p] = "ZOMBIE" /\ pxstate[p] = -1)

C19_NoPages ==
  \A p \in Procs :
    rstate[p] = "UNUSED" =>
      /\ trapframe[p] = 0
      /\ pagetable[p] = 0
      /\ \A fd \in Fds : ofile[p][fd] = 0
      /\ cwd[p] = 0

C19_UnusedOwnsNothing ==
  /\ C19_NoPages
  /\ \A p \in Procs : rstate[p] = "UNUSED" => \A i \in Vmas : vmas[p][i].valid = 0

(***************************************************************************)
(* C21: pids are unique and increasing.  Under concurrent fork() calls no  *)
(* two descriptors that are not UNUSED have the same pid, every pid in the *)
(* table is below nextpid, and every allocpid() hands out nextpid and      *)
(* advances it by one, so each pid is greater than all pids handed out     *)
(* before.                                                                 *)
(***************************************************************************)
C21_Unique ==
  /\ \A p, q \in Procs :
       (p # q /\ pstate[p] # "UNUSED" /\ pstate[q] # "UNUSED") => ppid[p] # ppid[q]
  /\ \A p \in Procs : ppid[p] < nextpid

C21_Step ==
  /\ nextpid' >= nextpid
  /\ nextpid' # nextpid => nextpid' = nextpid + 1
  /\ \A p \in Procs : ppid'[p] \in {ppid[p], 0, nextpid}

C21_PidsUniqueIncreasing == []C21_Unique /\ [][C21_Step]_vars

\* every descriptor is in use, with the pids 1, 2 and 3, while another
\* fork() is still looking for a descriptor
C21_Witness ==
  /\ \A p \in Procs : pstate[p] # "UNUSED"
  /\ {ppid[p] : p \in Procs} = 1..NPROC
  /\ \E p \in Procs : kpc[p].pc = "ap_scan"

(***************************************************************************)
(* C22: no descriptor has a ZOMBIE or UNUSED descriptor as parent: exit()  *)
(* hands every child of the exiting process to initproc before the process *)
(* becomes a ZOMBIE, and a parent pointer that is set changes only to      *)
(* initproc (reparent) or to null (freeproc).                              *)
(***************************************************************************)
C22_ParentAlive ==
  \A q \in Procs :
    pparent[q] # 0 => pstate[pparent[q]] \notin {"ZOMBIE", "UNUSED"}

C22_Step ==
  \A q \in Procs :
    (pparent[q] # 0 /\ pparent'[q] # pparent[q]) =>
      \/ pparent'[q] = 0
      \/ pparent'[q] = initproc /\ kpc[pparent[q]].pc = "rp_set"

C22_NoOrphans == []C22_ParentAlive /\ [][C22_Step]_vars

\* init's last system call was the fork() that returned pid 2, so the
\* process with pid 3 was forked by process 2; process 2 has exited and is
\* a ZOMBIE, and process 3 has init as parent
C22_Witness ==
  /\ kpc[initproc].pc = "sysret"
  /\ sysret[initproc] = [sys |-> "fork", val |-> 2, x |-> 0]
  /\ \E p, q \in Procs :
       /\ ppid[p] = 2 /\ pstate[p] = "ZOMBIE"
       /\ ppid[q] = 3 /\ pstate[q] \in {"RUNNABLE", "RUNNING"}
       /\ pparent[q] = initproc

(***************************************************************************)
(* C23: within one transaction the log header never holds a block number   *)
(* twice.  A log_write() on a block that is in the header leaves the       *)
(* header and the pin counts as they are; the buffer of a block is pinned  *)
(* once while the block is in the header and not yet installed, and not    *)
(* pinned by the log otherwise.                                            *)
(***************************************************************************)
\* the number of blocks of the header install_trans() has written home
Installed ==
  IF \E p \in LogOps : opc[p].pc = "install"
    THEN opc[CHOOSE p \in LogOps : opc[p].pc = "install"].t
    ELSE IF \E p \in LogOps : opc[p].pc \in {"truncate"} THEN Len(lh) ELSE 0

C23_NoDuplicate ==
  \A i, j \in 1..Len(lh) : i # j => lh[i] # lh[j]

C23_PinnedOnce ==
  \A b \in LogBlocks :
    lpin[b] = IF \E i \in (Installed + 1)..Len(lh) : lh[i] = b THEN 1 ELSE 0

C23_Absorb ==
  \A p \in LogOps :
    (opc[p].pc = "lw" /\ opc'[p].pc # "lw" /\ opc[p].b \in Range(lh)) =>
      lh' = lh /\ lpin' = lpin

C23_Absorption == [](C23_NoDuplicate /\ C23_PinnedOnce) /\ [][C23_Absorb]_vars

\* two calls of one transaction have both logged the same block; it is in
\* the header once and pinned once
C23_Witness ==
  \E p, q \in LogOps : \E b \in LogBlocks :
    /\ p # q
    /\ opc[p].pc = "op" /\ opc[q].pc = "op"
    /\ b \in opb[p] /\ b \in opb[q]
    /\ Len(lh) >= 2
    /\ lpin[b] = 1

(***************************************************************************)
(* C24: log recovery is idempotent.  RecoveredHome is the home area a      *)
(* complete recover_from_log() leaves when started on the present disk.    *)
(* No step of a recovery and no crash during a recovery changes            *)
(* RecoveredHome, so a recovery that is interrupted at any point and run   *)
(* again ends with the disk of one complete recovery; a recovery that      *)
(* completes leaves the home area equal to RecoveredHome and a header with *)
(* n = 0 on disk, on which a second recovery changes nothing.              *)
(***************************************************************************)
RECURSIVE InstallFrom(_, _, _, _)
\* install_trans() on a disk with header h and log blocks lg: the home area
\* after the turns k .. h.n of its loop, started on the home area home
InstallFrom(h, lg, home, k) ==
  IF k > Len(h) THEN home
  ELSE InstallFrom(h, lg, [home EXCEPT ![h[k]] = lg[k]], k + 1)

RecoveredHome == InstallFrom(dhead, dlog, dhome, 1)

C24_Step ==
  /\ rec.pc # "none" => RecoveredHome' = RecoveredHome
  /\ (rec.pc # "none" /\ rec'.pc = "none") =>
       /\ dhead' = <<>>
       /\ dhome' = RecoveredHome
       /\ InstallFrom(dhead', dlog', dhome', 1) = dhome'

C24_RecoveryIdempotent == [][C24_Step]_vars

\* a recovery has installed the first of two logged blocks; the second one
\* still has other data at home than in the log
C24_Witness ==
  /\ rec.pc = "install"
  /\ rec.t = 1
  /\ Len(dhead) = 2
  /\ dhome[dhead[1]] = dlog[1]
  /\ dhome[dhead[2]] # dlog[2]

(***************************************************************************)
(* C25: page conservation under any interleaving of kalloc and kfree on    *)
(* several harts.  As stated: every frame is either on the free list with  *)
(* reference count 0 or allocated with reference count at least 1, never   *)
(* both and never neither, and no frame is twice on the list.  As amended: *)
(* a frame is in exactly one of three conditions, the third being "taken   *)
(* off the list by a kalloc() that has not yet counted it".                *)
(***************************************************************************)
\* the number of times frame f is on the free list
OnList(f) == Cardinality({i \in DOMAIN freelist : freelist[i] = f})

\* the references to f that callers hold
Refs(f) == SumOver([t \in KThreads |-> kown[t][f]], KThreads)

\* f is the local r of a kalloc() between its two critical sections
InKalloc(f) == \E t \in KThreads : kt[t].pc = "incr" /\ kt[t].r = f

IsFree(f)      == OnList(f) = 1 /\ ref_page[f] = 0 /\ Refs(f) = 0
IsAllocated(f) == OnList(f) = 0 /\ ref_page[f] >= 1 /\ Refs(f) = ref_page[f]

C25_Conservation ==
  \A f \in Frames :
     \/ IsFree(f) /\ ~InKalloc(f)
     \/ IsAllocated(f) /\ ~InKalloc(f)
     \/ /\ InKalloc(f)
        /\ OnList(f) = 0 /\ ref_page[f] = 0 /\ Refs(f) = 0
        /\ Cardinality({t \in KThreads : kt[t].pc = "incr" /\ kt[t].r = f}) = 1

\* a shared frame and a frame inside kalloc() while the head of the list is
\* a frame that kfree() put back
C25_Witness ==
  /\ \E f \in Frames : ref_page[f] = 2 /\ IsAllocated(f)
  /\ \E f \in Frames : InKalloc(f)
  /\ freelist # <<>> /\ Head(freelist) # Len(freelist)

\* the claim as stated
C25_FreeXorCounted ==
  \A f \in Frames :
     /\ OnList(f) <= 1
     /\ (OnList(f) = 1 /\ ref_page[f] = 0) # (OnList(f) = 0 /\ ref_page[f] >= 1)

(***************************************************************************)
(* C26: after fork, parent and child read identical contents at every user *)
(* address below sz; afterwards a write by either process is visible only  *)
(* to the writer; and after one of the two has exited and has been reaped, *)
(* every frame still mapped by the survivor has reference count 1.         *)
(***************************************************************************)
\* the processes that have user memory
HasMem(p) == rstate[p] \in {"USED", "ZOMBIE"}

\* the frame behind page va of process p
Pa(p, va) == upt[p].pte[va].pa

\* the same after the step
LoadN(p, va) == phys'.pmem[upt'[p].pte[va].pa]
PaN(p, va)  == upt'[p].pte[va].pa

\* the step is a fork() that returned a pid
ForkDone == vnextpid' # vnextpid /\ vret'.val # -1

\* no frame is mapped at two user pages, of one process or of two
C26_Private ==
  \A p, q \in Procs : \A va, vb \in UserVas :
     (/\ HasMem(p) /\ HasMem(q) /\ va < usz[p] /\ vb < usz[q]
      /\ Pa(p, va) = Pa(q, vb))
     => (p = q /\ va = vb)

C26_Step ==
  /\ ForkDone =>
       /\ usz'[vret'.np] = usz'[vret'.p]
       /\ \A va \in UserVas :
            va < usz'[vret'.p] => LoadN(vret'.np, va) = LoadN(vret'.p, va)
  /\ \A p \in Procs : \A va \in UserVas : \A v \in 0..MaxVal :
       store(p, va, v) =>
         /\ LoadN(p, va) = v
         /\ \A q \in Procs : \A vb \in UserVas :
              (HasMem(q) /\ vb < usz[q] /\ <<q, vb>> # <<p, va>>)
              => LoadN(q, vb) = Load(q, vb)
  /\ \A p, np \in Procs :
       sys_wait_vm(p, np) =>
         \A q \in Procs : \A va \in UserVas :
            (rstate'[q] \in {"USED", "ZOMBIE"} /\ va < usz'[q])
            => phys'.ref_page[PaN(q, va)] = 1

C26_ForkIsolation == []C26_Private /\ [][C26_Step]_vars

\* a process with two pages, one of them written, has reaped its child
C26_Witness ==
  /\ vret.call = "wait" /\ vret.p # initproc
  /\ usz[vret.p] = 2
  /\ Load(vret.p, 0) = 0
  /\ phys.ref_page[Pa(vret.p, 0)] = 1

(***************************************************************************)
(* C27: uvmcopy does not copy page contents: for every page below sz it    *)
(* maps the parent's physical frame into the child's table with identical  *)
(* flags, clears the write bit and sets the COW mark on the parent's        *)
(* writable leaves, and increments that frame's reference count.           *)
(***************************************************************************)
C27_Step ==
  ForkDone =>
    \A va \in UserVas :
       va < usz[vret'.p] =>
         /\ PaN(vret'.np, va) = Pa(vret'.p, va)
         /\ upt'[vret'.np].pte[va].flags = upt'[vret'.p].pte[va].flags
         /\ "W" \in upt[vret'.p].pte[va].flags =>
              /\ "W" \notin upt'[vret'.p].pte[va].flags
              /\ "COW" \in upt'[vret'.p].pte[va].flags
         /\ phys'.ref_page[Pa(vret'.p, va)] = phys.ref_page[Pa(vret'.p, va)] + 1

C27_SharesFrames == [][C27_Step]_vars

(***************************************************************************)
(* C28: a fork that fails (no UNUSED descriptor, or memory runs out in     *)
(* allocproc or uvmcopy) returns -1 and leaves the kernel as before the    *)
(* call: every frame allocated during the attempt is back on the free      *)
(* list, the chosen descriptor is UNUSED, and no file or inode reference   *)
(* count has changed.                                                      *)
(***************************************************************************)
\* the frames on the free list
FreeFrames(st) == {st.freelist[i] : i \in DOMAIN st.freelist}

\* the step is a fork() that returned -1
ForkFailed == (\E p \in Procs : sys_fork_vm(p)) /\ vret'.val = -1

C28_Step ==
  ForkFailed =>
    /\ FreeFrames(phys') = FreeFrames(phys)
    /\ Len(phys'.freelist) = Len(phys.freelist)
    /\ phys'.ref_page = phys.ref_page
    /\ phys'.panic = ""
    /\ rstate' = rstate /\ rparent' = rparent
    /\ (vret'.np # 0 =>
          /\ rstate'[vret'.np] = "UNUSED"
          /\ utf'[vret'.np] = 0 /\ upt'[vret'.np] = NoPt /\ usz'[vret'.np] = 0)
    /\ \A q \in Procs : q # vret'.np =>
          utf'[q] = utf[q] /\ upt'[q] = upt[q] /\ usz'[q] = usz[q]
    /\ fref' = fref /\ iref' = iref /\ ofile' = ofile /\ cwd' = cwd

C28_LockReleased ==
  [][\A p \in Procs :
       (sysret'[p] # sysret[p] /\ sysret'[p].sys = "fork" /\ sysret'[p].val = -1)
       => /\ \A c \in Cpus : cproc[c] = p => \A l \in LockIds : slk'[l] # c
          /\ kpc[p].pc \in {"ap_found", "fk_copy"} => pstate'[kpc[p].i] = "UNUSED"]_vars


(***************************************************************************)
(* The inode cache                                                         *)
(***************************************************************************)
\* the references to entry e that the processes were handed by iget and
\* idup and have not given back to iput
Handed(e) == SumOver([t \in IThreads |-> ihold[t][e]], IThreads)

C29_OneEntry ==
  \A e1 \in IEntries, e2 \in IEntries :
     /\ icache[e1].ref > 0
     /\ icache[e2].ref > 0
     /\ icache[e1].dev = icache[e2].dev
     /\ icache[e1].inum = icache[e2].inum
     => e1 = e2

C29_RefCount == \A e \in IEntries : icache[e].ref = Handed(e)

\* a step that hands process t a reference to entry e hands it the entry
\* that was in use for that (dev, inum), if there was one
C29_Step ==
  \A t \in IThreads, e \in IEntries :
     ihold'[t][e] > ihold[t][e] =>
       \A e0 \in IEntries :
          /\ icache[e0].ref > 0
          /\ icache[e0].dev = icache'[e].dev
          /\ icache[e0].inum = icache'[e].inum
          => e0 = e

\* C29: under any interleaving of iget, idup and iput the inode cache has at
\* most one entry with ref > 0 for a (dev, inum): an iget for a (dev, inum)
\* that is in use returns the entry in use, and the ref of every entry is
\* the number of references handed out and not yet released.
C29_CacheConsistent ==
  [](C29_OneEntry /\ C29_RefCount) /\ [][C29_Step]_vars

\* two processes hold the same file's entry, one of them twice, while the
\* other is inside iput
C29_Witness ==
  \E e \in IEntries \ {ICwd} : \E t \in IThreads, u \in IThreads :
     /\ t # u
     /\ ihold[t][e] = 2
     /\ ihold[u][e] = 1
     /\ icache[e].ref = 3
     /\ ith[u].pc = "iput"
     /\ ith[u].x = e

(***************************************************************************)
(* Link counts                                                             *)
(***************************************************************************)
FileInums == Inums \ {ROOTINO}

\* the directory entries that name inode i
Dirents(i) == Cardinality({n \in Names : dirent[n] = i})

\* the calls that have changed the link count of inode i or its entries
\* and not yet the other: a link between its nlink++ and its dirlink or
\* its nlink--, an unlink between the zeroed entry and its nlink--
InFlight(i) ==
  Cardinality({t \in IThreads :
                 ith[t].ph # 0 /\ icache[ith[t].ip].inum = i})

C30_LinkCount ==
  \A i \in FileInums :
     IF dinode[i].type = 0 THEN Dirents(i) = 0
     ELSE dinode[i].nlink = Dirents(i) + InFlight(i)

\* an inode without links that nobody holds is free on disk, a free inode
\* has no blocks, and the blocks in use are those of the inodes
C30_Freed ==
  /\ \A i \in FileInums :
        dinode[i].type # 0 /\ dinode[i].nlink = 0 =>
          \E e \in IEntries : icache[e].ref > 0 /\ icache[e].inum = i
  /\ \A i \in FileInums : dinode[i].type = 0 => dinode[i].addrs = {}
  /\ bitmap = UNION {dinode[i].addrs : i \in Inums}

\* what each call does to the on-disk link count: link adds one; a link
\* that fails takes it back and leaves the entries alone; a link that
\* succeeds writes the entry; unlink takes one
C30_NlinkStep ==
  \A t \in IThreads :
     /\ ith[t].ph = 0 /\ ith'[t].ph = 1 =>
          dinode'[icache'[ith'[t].ip].inum].nlink =
            dinode[icache'[ith'[t].ip].inum].nlink + 1
     /\ ith[t].ph = 1 /\ ith'[t].ph = 0 /\ dirent' = dirent =>
          dinode'[icache[ith[t].ip].inum].nlink =
            dinode[icache[ith[t].ip].inum].nlink - 1
     /\ ith[t].ph = 1 /\ ith'[t].ph = 0 /\ dirent' # dirent =>
          /\ dinode' = dinode
          /\ Dirents(icache[ith[t].ip].inum)' =
               Dirents(icache[ith[t].ip].inum) + 1
     /\ ith[t].ph = 2 /\ ith'[t].ph = 0 =>
          dinode'[icache[ith[t].ip].inum].nlink =
            dinode[icache[ith[t].ip].inum].nlink - 1

\* the step that drops the last reference to an inode without links leaves
\* the inode free on disk and its blocks free in the bitmap
C30_LastPutFrees ==
  \A e \in IEntries \ {ICwd} :
     /\ icache[e].ref = 1
     /\ icache'[e].ref = 0
     /\ dinode[icache[e].inum].nlink = 0
     => /\ dinode'[icache[e].inum] = NoDinode
        /\ bitmap' \cap icache[e].addrs = {}

\* the part on nlink alone: the count follows the entries through every
\* link, failed link and unlink
C30_NlinkRestored == []C30_LinkCount /\ [][C30_NlinkStep]_vars

\* C30: link(old, new) followed by unlink(new) restores the inode's nlink
\* (every link adds one to nlink with one entry, every unlink takes one with
\* one entry); a link that fails after its nlink++ restores nlink as well;
\* and when unlink has removed the last link and the last in-memory
\* reference is dropped, the data blocks are freed and the inode is marked
\* free on disk.
C30_LinkAccounting ==
  /\ [](C30_LinkCount /\ C30_Freed)
  /\ [][C30_NlinkStep /\ C30_LastPutFrees]_vars

\* the file was unlinked while it was open and had a block; closing it has
\* freed the block and the inode
C30_Witness ==
  \E t \in IThreads :
     /\ ith[t].pc = "iput_inval"
     /\ ith[t].op = "close"
     /\ dinode[icache[ith[t].x].inum] = NoDinode
     /\ icache[ith[t].x].nlink = 0
     /\ bitmap = {}
     /\ \A n \in Names : dirent[n] = 0

\* a link that failed has put the count back: the call is on its way out,
\* the count is the number of entries again
C30_FailedLinkWitness ==
  \E t \in IThreads :
     /\ ith[t].op = "link"
     /\ ith[t].pc = "iput"
     /\ ith[t].kp = "idle"
     /\ ith[t].x = ith[t].ip
     /\ ith[t].ph = 0
     /\ dinode[icache[ith[t].ip].inum].nlink = 1
     /\ Dirents(icache[ith[t].ip].inum) = 1

\* unlink(new) after link(old, new): "b" named the file of "a" and is gone,
\* the count is one again
C30_LinkUnlinkWitness ==
  \E t \in IThreads :
     /\ ith[t].op = "unlink"
     /\ ith[t].name = "b"
     /\ ith[t].pc = "iput"
     /\ ith[t].x = ith[t].ip
     /\ dirent["a"] = icache[ith[t].ip].inum
     /\ dirent["b"] = 0
     /\ dinode[icache[ith[t].ip].inum].nlink = 1

(***************************************************************************)
(* C31: sys_munmap trims a region at its front, at its back or as a whole  *)
(* and rejects a range strictly inside it with -1 and no change; after a   *)
(* successful call the region is its old range minus the unmapped range,   *)
(* its size has not underflowed, and it is invalidated, and its file       *)
(* reference dropped, exactly when nothing of it remains.                  *)
(***************************************************************************)
MRange(v) ==
  IF v.valid = 1
  THEN {a \in MAddrs : v.vastart <= a /\ a < v.vastart + v.sz}
  ELSE {}

MCut(addr, sz) == {a \in MAddrs : addr <= a /\ a < addr + sz}

MunmapStep == mret'.call = "munmap" /\ <<mvmas, mpte, mret>> # <<mvmas, mpte, mret>>'

C31_Rejected ==
  MunmapStep /\ mret'.val = -1 => UNCHANGED <<mvmas, mfref, mpte>>

C31_Hole ==
  MunmapStep =>
    \A i \in Vmas :
      /\ mvmas[i].valid = 1
      /\ mret'.sz > 0
      /\ mret'.addr > mvmas[i].vastart
      /\ mret'.addr + mret'.sz < mvmas[i].vastart + mvmas[i].sz
      => mret'.val = -1

C31_Trimmed ==
  MunmapStep /\ mret'.val = 0 =>
    \E i \in {First(findvma(mvmas, mret'.addr))} :
      /\ MRange(mvmas'[i]) = MRange(mvmas[i]) \ MCut(mret'.addr, mret'.sz)
      /\ mvmas'[i].sz <= mvmas[i].sz
      /\ mvmas'[i].valid = 0 <=>
           MRange(mvmas[i]) \ MCut(mret'.addr, mret'.sz) = {}
      /\ mfref' = IF mvmas'[i].valid = 0 THEN mfref - 1 ELSE mfref
      /\ \A j \in Vmas \ {i} : mvmas'[j] = mvmas[j]

C31_MunmapTrims == [][C31_Rejected /\ C31_Hole /\ C31_Trimmed]_vars

\* the parts of C31 that do not depend on how much is subtracted
C31_RejectsHoles == [][C31_Rejected /\ C31_Hole]_vars

(***************************************************************************)
(* C39: a page that vmatrylazytouch maps gets exactly the permissions of   *)
(* the region's prot: user, and readable, writable and executable as       *)
(* PROT_READ, PROT_WRITE and PROT_EXEC are in prot.                        *)
(***************************************************************************)
TouchStep == mret'.call = "touch" /\ mret'.val = 1 /\ mpte' # mpte

C39_Perm ==
  TouchStep =>
    mpte'[mret'.addr \div PGSIZE] =
      lazy_perm(mvmas[First(findvma(mvmas, mret'.addr))].prot)

C39_LazyPerm == [][C39_Perm]_vars

(***************************************************************************)
(* C32: on a miss, the buffer that bget recycles has refcnt 0 and the      *)
(* smallest lastuse among the buffers with refcnt 0 in the bucket whose    *)
(* lock the scan has kept and in the buckets scanned after it (a buffer    *)
(* of a bucket scanned before, released while the scan went on, can have   *)
(* a smaller one); lastuse changes only when brelse drops refcnt to 0, to  *)
(* the tick of that moment, and every drop of refcnt to 0 stamps it.       *)
(***************************************************************************)
InChain(c, k) == \E j \in DOMAIN bufmap[k] : bufmap[k][j] = c

C32_RecycleScanned ==
  \A t \in BThreads :
    bt[t].pc = "pick" /\ bt'[t].pc \in {"move", "acquiresleep"} =>
      /\ brefcnt[bt'[t].b] = 0
      /\ InChain(bt'[t].b, bt[t].holding_bucket)
      /\ \A c \in Bufs, k \in Buckets :
           k >= bt[t].holding_bucket /\ InChain(c, k) /\ brefcnt[c] = 0 =>
             blastuse[bt'[t].b] <= blastuse[c]

C32_Recycle ==
  \A t \in BThreads :
    bt[t].pc = "pick" /\ bt'[t].pc \in {"move", "acquiresleep"} =>
      /\ brefcnt[bt'[t].b] = 0
      /\ \A c \in Bufs : brefcnt[c] = 0 => blastuse[bt'[t].b] <= blastuse[c]

C32_Stamp ==
  \A b \in Bufs :
    /\ brefcnt[b] > 0 /\ brefcnt'[b] = 0 => blastuse'[b] = ticks
    /\ blastuse'[b] # blastuse[b] =>
         /\ brefcnt[b] = 1 /\ brefcnt'[b] = 0
         /\ \E t \in BThreads : bt[t].pc = "brelse_cnt" /\ bt[t].b = b
         /\ blastuse'[b] = ticks

C32_LeastRecentlyUsed == [][C32_RecycleScanned /\ C32_Stamp]_vars

\* C32 as stated: the buffer recycled has the smallest lastuse among all
\* the buffers that have refcnt 0 when the scan ends
C32_AsStated == [][C32_Recycle /\ C32_Stamp]_vars

\* bget has recycled a buffer that held another block while a buffer
\* released later was free as well
C32_Witness ==
  \E t \in BThreads :
    /\ bt[t].pc = "acquiresleep"
    /\ bt[t].old # 0
    /\ \E c \in Bufs : brefcnt[c] = 0 /\ blastuse[c] > blastuse[bt[t].b]

(***************************************************************************)
(* C40: every buffer is linked in at most one bucket chain, and once; in   *)
(* exactly one unless a caller of bget that holds the eviction lock has    *)
(* unlinked it and not yet linked it in the bucket of its new block; a     *)
(* buffer linked in bucket k has BUFMAP_HASH(dev, blockno) = k, so that    *)
(* brelse, bpin and bunpin take the lock of the bucket that holds it.      *)
(***************************************************************************)
Links(b) ==
  {<<k, j>> \in Buckets \X (1..NBUF) : j \in DOMAIN bufmap[k] /\ bufmap[k][j] = b}

Moving(b) ==
  \E t \in BThreads : bt[t].pc = "move" /\ bt[t].b = b /\ eviction_lock = t

C40_ChainConsistent ==
  \A b \in Bufs :
    /\ Cardinality(Links(b)) <= 1
    /\ Links(b) = {} <=> Moving(b)
    /\ \A l \in Links(b) : KeyOf(b) = l[1]

\* a buffer is in transit while another one is linked, in use, in a bucket
\* other than the one that binit filled
C40_Witness ==
  /\ \E b \in Bufs : Moving(b)
  /\ \E b \in Bufs, k \in Buckets \ {0} : InChain(b, k) /\ brefcnt[b] > 0

(***************************************************************************)
(* C38: a log_write of a block that is already in the header of the        *)
(* running transaction does not panic, whatever the length of the header,  *)
(* its greatest admitted length included.                                  *)
(***************************************************************************)
C38_Step ==
  \A p \in LogOps, b \in CrashBlocks, v \in Vals :
    log_write(p, b, v) /\ b \in Range(lh) /\ outstanding >= 1 => lpanic' = ""

C38_AbsorbedNeverPanics == [][C38_Step]_vars

(***************************************************************************)
(* C37: kill(pid) returns -1 and changes nothing when no descriptor that   *)
(* is not UNUSED has that pid, pid 0 included: it never sets killed of an  *)
(* UNUSED descriptor, so that killed is 0 in every UNUSED descriptor and   *)
(* in every descriptor allocproc hands out.                                *)
(***************************************************************************)
C37_UnusedNotKilled ==
  \A q \in Procs : pstate[q] = "UNUSED" => pkilled[q] = 0

C37_Step ==
  \A p \in Procs :
    kpc[p].pc = "k_scan" /\ kpc'[p] # kpc[p] =>
      /\ pstate[kpc[p].i] = "UNUSED" => pkilled' = pkilled /\ pstate' = pstate
      /\ (\A q \in Procs : pstate[q] = "UNUSED" \/ ppid[q] # kpc[p].a)
           /\ sysret'[p] # sysret[p] => sysret'[p].val = -1

C37_KillOnlyLive == []C37_UnusedNotKilled /\ [][C37_Step]_vars

(***************************************************************************)
(* C36: exit, wait, kill, wakeup and the schedulers never deadlock on the  *)
(* process locks: a hart that holds a p->lock and acquires another one     *)
(* acquires the lock of a child of a process whose lock it holds, so that  *)
(* no set of harts is reachable in which every hart spins for a p->lock    *)
(* that another hart of the set holds.                                     *)
(***************************************************************************)
PLocksHeld(c) == {l \in Procs : slk[l] = c}

\* the p->lock that hart c spins for when that lock is held, 0 if none
WantsLock(c) ==
  IF panicked # "" \/ cproc[c] = 0 THEN 0
  ELSE IF ctx[c] = "sched" THEN (IF spc[c].pc = "scan" THEN spc[c].i ELSE 0)
  ELSE IF kpc[cproc[c]].pc \in {"x_par", "x_p_acq", "w_acq"} THEN cproc[c]
  ELSE IF kpc[cproc[c]].pc = "x_op_acq" THEN kpc[cproc[c]].b
  ELSE IF kpc[cproc[c]].pc \in {"rp_set", "w_np", "k_scan", "ap_scan"}
       THEN kpc[cproc[c]].i
  ELSE IF kpc[cproc[c]].pc = "x_init" THEN initproc
  ELSE 0

C36_Order ==
  /\ \A c \in Cpus, l \in Procs :
       slk[l] # c /\ slk'[l] = c /\ PLocksHeld(c) # {} =>
         \E h \in PLocksHeld(c) : pparent[l] = h
  /\ \A p \in Procs :
       kpc[p].pc \in {"rp_set", "w_np"} /\ kpc'[p] # kpc[p] =>
         pparent[kpc[p].i] = p

C36_NoCycle ==
  \A H \in SUBSET Cpus :
    H # {} => \E c \in H : WantsLock(c) = 0 \/ slk[WantsLock(c)] \notin H \ {c}

C36_NoDeadlock == []C36_NoCycle /\ [][C36_Order]_vars

(***************************************************************************)
(* exit() and wait(): user programs that fork and exit, and init, which    *)
(* forks and calls wait(0) again and again.  The fair specification lets   *)
(* every hart go on executing and init call wait() whenever it is in user  *)
(* mode; no other program is made to call anything.                        *)
(***************************************************************************)
NextExit ==
  \/ \E c \in Cpus :
     \/ s_scan(c) /\ UNCHANGED notProc
     \/ s_back(c) /\ UNCHANGED notProc
  \/ \E p \in Procs, c \in Cpus :
     \/ forkret(p, c) /\ UNCHANGED notProc
     \/ sys_return(p, c) /\ UNCHANGED notProc
     \/ sys_fork(p, c) /\ UNCHANGED notProc
     \/ \E s \in ExitStatus : sys_exit(p, c, s) /\ UNCHANGED notProc
     \/ (p = initproc /\ sys_wait(p, c, "null")) /\ UNCHANGED notProc
     \/ ap_scan(p, c) /\ UNCHANGED notProc
     \/ \E mem \in {"ok", "tf", "pt"} : ap_found(p, c, mem) /\ UNCHANGED notProc
     \/ \E mem \in {"ok", "fail"} : fk_copy(p, c, mem) /\ UNCHANGED notProc
     \/ x_init(p, c) /\ UNCHANGED notProc
     \/ x_par(p, c) /\ UNCHANGED notProc
     \/ x_op_acq(p, c) /\ UNCHANGED notProc
     \/ x_p_acq(p, c) /\ UNCHANGED notProc
     \/ rp_chk(p, c) /\ UNCHANGED notProc
     \/ rp_set(p, c) /\ UNCHANGED notProc
     \/ x_fin(p, c) /\ UNCHANGED notProc
     \/ w_acq(p, c) /\ UNCHANGED notProc
     \/ w_chk(p, c) /\ UNCHANGED notProc
     \/ w_np(p, c) /\ UNCHANGED notProc
     \/ w_end(p, c) /\ UNCHANGED notProc
     \/ w_wake(p, c) /\ UNCHANGED notProc

SpecExit == Init /\ [][NextExit]_vars

FairExit ==
  /\ SpecExit
  /\ \A c \in Cpus : SF_vars(HartStep(c) /\ UNCHANGED notProc)
  /\ SF_vars((\E c \in Cpus : sys_wait(initproc, c, "null")) /\ UNCHANGED notProc)

(***************************************************************************)
(* C35: a ZOMBIE whose parent is init, init calling wait() in a loop, is   *)
(* eventually reaped, whatever the interleaving of its exit, the exit of   *)
(* the parent that handed it to init and init's wait, and without another  *)
(* exit to wake init.                                                      *)
(***************************************************************************)
C35_ZombieReaped ==
  \A z \in Procs :
    (pstate[z] = "ZOMBIE" /\ pparent[z] = initproc) ~> (pstate[z] # "ZOMBIE")

(***************************************************************************)
(* C34: no starvation in the scheduler.  The harts keep running their      *)
(* scheduler loops and a running process is preempted by the timer (or     *)
(* sleeps or exits); then a process that is RUNNABLE is eventually         *)
(* switched to RUNNING, in whatever slot of the process table it sits.     *)
(***************************************************************************)
C34_NoStarvation ==
  \A p \in Procs : (pstate[p] = "RUNNABLE") ~> (pstate[p] = "RUNNING")

\* the process in the last slot of the table has given up the hart in
\* yield() and has been chosen again by a scheduler
C34_Witness ==
  \E c \in Cpus : cproc[c] = NPROC /\ kpc[NPROC].pc = "y_rel"

(***************************************************************************)
(* One call of filewrite() on a file of any size up to MAXFILE blocks, at  *)
(* any offset, for 0 .. MaxWrite bytes, on a disk whose first free block   *)
(* is one of the last MaxFree0 blocks of a bitmap block or the first of    *)
(* the next.                                                               *)
(***************************************************************************)
InitWrite ==
  /\ InitRest /\ logsize = LOGSIZE /\ InitVm(NVmFrame)
  /\ \E size \in 0 .. (MAXFILE * BSIZE), n \in 0 .. MaxWrite,
        lo \in (BPB - MaxFree0) .. BPB :
       \E off \in 0 .. size : InitFile(size, off, n, lo)

NextWrite ==
  \/ filewrite_chunk /\ UNCHANGED notFw
  \/ \E copy \in {"ok", "bad"} : writei_block(copy) /\ UNCHANGED notFw
  \/ writei_end /\ UNCHANGED notFw

SpecWrite == InitWrite /\ [][NextWrite]_vars

(***************************************************************************)
(* C33: a chunk that filewrite() writes between begin_op() and end_op() is *)
(* at most ((MAXOPBLOCKS-1-1-2)/2)*BSIZE bytes, and the distinct blocks    *)
(* logged for it (data, bitmap, inode, singly- and doubly-indirect blocks) *)
(* are at most MAXOPBLOCKS, at every offset and alignment.                 *)
(***************************************************************************)
C33_ChunkFits ==
  /\ fwn1 <= ((FwMaxOpBlocks - 1 - 1 - 2) \div 2) * BSIZE
  /\ Cardinality(fwlog) <= FwMaxOpBlocks

\* a whole chunk that began inside a block was written and its transaction
\* holds MAXOPBLOCKS blocks, three of them indirect blocks and two of them
\* bitmap blocks
C33_Witness ==
  /\ fwpc = "done"
  /\ fwret = fwn
  /\ (fwoff - fwn1) % BSIZE # 0
  /\ Cardinality(fwlog) = FwMaxOpBlocks
  /\ {BBLOCK(0), BBLOCK(BPB)} \subseteq fwlog
====
